---- MODULE Spec2Model ----
(***************************************************************************)
(* State-machine model of the Airthings bridge core:                       *)
(*   - DevicePoller (src/src/poller.ts): the per-device timer loop, the    *)
(*     fetch-cycle outcomes and the DeviceState it owns;                   *)
(*   - AirthingsApiClient (src/unnamed/part_002): the token cache, the     *)
(*     coalesced credential exchange and the 401 retry of request().       *)
(*   - AirthingsHubPlatform (src/unnamed/part_000): the accessory          *)
(*     collection and its reconciliation with the upstream device list;    *)
(*   - AirthingsHubAccessory (src/src/accessory.ts): what a notification   *)
(*     of the poller writes to the HomeKit characteristics.                *)
(* PollerSpec drives one poller with every result getLatestSamples() can   *)
(* deliver; ApiSpec drives one client with several concurrent callers;     *)
(* PlatformSpec drives one platform through restores, discoveries and      *)
(* shutdown; AccessorySpec drives one accessory wrapper with the poller's  *)
(* notifications; FleetSpec runs the pollers of two wrappers side by side. *)
(* EmitterSpec drives the event-emitter DevicePoller                       *)
(* (src/unnamed/part_003); TimeoutSpec follows one HTTP call of the client *)
(* against the clock; GraceSpec adds to the platform the notifications of  *)
(* its wrappers' pollers.                                                  *)
(***************************************************************************)
EXTENDS Integers, FiniteSets, Sequences, TLC

\* ------------------------------------------------------------------ bounds
MaxInFlight == 2          \* fetch cycles followed at the same time
MaxFailures == 4          \* longest streak of soft failures followed
MaxStartStreak == 2       \* consecutive start() calls followed
RandomSteps == 2          \* Math.random() takes the values k / RandomSteps
MaxExchanges == 3         \* credential exchanges followed
MaxApiCalls == 3          \* API calls followed for one request()
MaxNow == 90000           \* the clock stops here (ms)
TickStep == 30000         \* the clock advances in steps of this many ms
MaxDevices == 2           \* entries of an upstream device list
MaxReconciles == 3        \* discoveries followed for one platform
MaxFleetInFlight == 1     \* fetch cycles followed at the same time, per poller of a fleet
MaxGraceReconciles == 2   \* discoveries followed for a platform with its pollers
MaxHttpNow == 30000       \* the clock of a timed HTTP call stops here (ms)
HttpTickStep == 5000      \* and advances in steps of at most this many ms

\* ------------------------------------------------------- program constants
JITTER_RANGE_MS == 5000
FAILURE_THRESHOLD == 3
\* unnamed/part_003 (event-emitter DevicePoller)
EMITTER_FAULT_AFTER == 3
DEFAULT_POLL_INTERVAL_MS == 900000
TOKEN_REFRESH_MARGIN_MS == 60000
\* fetchWithTimeout(): setTimeout(() => controller.abort(), 10000)
FETCH_TIMEOUT_MS == 10000
HTTP_STATUS_OK == 200
HTTP_STATUS_UNAUTHORIZED == 401
HTTP_STATUS_FORBIDDEN == 403
HTTP_STATUS_TOO_MANY_REQUESTS == 429
DEVICE_TYPE_HUB == "HUB"
DAY_MS == 86400000
EXCELLENT_VOC_THRESHOLD == 250
GOOD_VOC_THRESHOLD == 500
FAIR_VOC_THRESHOLD == 1000
INFERIOR_VOC_THRESHOLD == 2000
HIGH_CO2_THRESHOLD == 1000
LOW_BATTERY_THRESHOLD == 20

VARIABLES
    \* DevicePoller fields
    isPolling,             \* this.isPolling
    pollingInterval,       \* this.pollingInterval: a timer handle, or NoTimer for null
    consecutiveFailures,   \* this.consecutiveFailures
    \* DeviceState
    latestSample,          \* state.latestSample
    isFaulted,             \* state.isFaulted
    \* the event loop, as far as this poller is concerned
    timers,                \* timers set and neither fired nor cleared
    inFlight,              \* getLatestSamples() calls awaiting their result
    \* what the last step did
    lastOp,                \* the operation that ran last
    lastResult,            \* the fetch result the last poll() continuation handled
    onUpdateCalls,         \* onUpdate() calls made by the last step
    fetchStarts,           \* fetch cycles started by the last step
    startStreak,           \* consecutive start() calls up to now
    streakFromIdle,        \* the streak's first start() found the poller not running
    stopped,               \* stop() has been called and start() has not been called since
    \* AirthingsApiClient fields
    accessToken,           \* this.accessToken, NoToken for null
    tokenExpirationTime,   \* this.tokenExpirationTime
    tokenRefreshPromise,   \* this.tokenRefreshPromise: an exchange, or NoExchange for null
    oauth,                 \* the OAuthResponse the cached token came with, and when
    \* the network and the clock
    now,                   \* Date.now()
    authInFlight,          \* credential exchanges (POST to the auth URL) awaiting a response
    exchanges,             \* credential exchanges sent so far
    callers,               \* the tasks calling getToken() / request()
    \* AirthingsHubPlatform fields
    config,                \* this.config, as parseConfig() returned it
    accessories,           \* this.accessories
    activeWrappers,        \* this.activeWrappers: UUID -> index into wrappers
    \* the platform's surroundings
    phase,                 \* "new", "constructed" (restoring the cache), "launched" or "shutdown"
    wrappers,              \* every AirthingsHubAccessory built so far, with its poller
    reconciles,            \* discoveries run so far
    lastDiscovery,         \* what the last discovery was given and what it called
    \* AirthingsHubAccessory fields
    built,                 \* the wrapper has been constructed
    services,              \* this.services: the keys of the active services
    lowBatteryServices,    \* the services for which testCharacteristic(StatusLowBattery) holds
    characteristics,       \* the values the services show
    notified,              \* the DeviceState the last onStateUpdate() read
    \* several accessory wrappers side by side
    pollers,               \* device id -> the fields of that wrapper's DevicePoller
    states,                \* device id -> that wrapper's DeviceState
    acted,                 \* the poller that took the last step, and the operation
    \* the event-emitter DevicePoller
    emitted,               \* its listeners are attached; the events the last poll() emitted
    \* one HTTP call of the client, against the clock
    http                   \* how far the call is, when it was sent, how it settled

pollerVars == <<isPolling, pollingInterval, consecutiveFailures, latestSample, isFaulted,
                timers, inFlight, lastOp, lastResult, onUpdateCalls, fetchStarts,
                startStreak, streakFromIdle, stopped>>
apiVars == <<accessToken, tokenExpirationTime, tokenRefreshPromise, oauth, now, authInFlight,
             exchanges, callers>>
clientVars == <<accessToken, tokenExpirationTime, tokenRefreshPromise, oauth, authInFlight,
                exchanges, callers>>
platformVars == <<config, accessories, activeWrappers, phase, wrappers, reconciles,
                  lastDiscovery>>
accessoryVars == <<built, services, lowBatteryServices, characteristics, notified>>
fleetVars == <<pollers, states, acted>>
variantVars == <<emitted, http>>
homeVars == <<platformVars, accessoryVars, fleetVars, variantVars>>
vars == <<pollerVars, apiVars, homeVars>>

Max(a, b) == IF a >= b THEN a ELSE b

\* ================================================================ results
\* What `await this.apiClient.getLatestSamples(id)` can deliver to poll():
\* a response body, or a thrown value.

NoTimer == 0
NoToken == 0
NoExchange == 0

\* AirthingsDeviceSample['data']: optional numeric fields, as a set of <<field, value>>
SampleData == {{}, {<<"radonShortTermAvg", 50>>}, {<<"radonShortTermAvg", 200>>},
               {<<"radonShortTermAvg", 200>>, <<"battery", 50>>}}

\* a response body: the value itself may be null/undefined, or lack `data`
Bodies == {[present |-> FALSE, hasData |-> FALSE, data |-> {}],
           [present |-> TRUE, hasData |-> FALSE, data |-> {}]}
          \cup {[present |-> TRUE, hasData |-> TRUE, data |-> d] : d \in SampleData}

NoError == [isError |-> FALSE, name |-> "", message |-> ""]

\* fetchWithTimeout: controller.abort() after 10 s rejects fetch with an AbortError
AbortError == [isError |-> TRUE, name |-> "AbortError", message |-> "The operation was aborted"]
\* fetch rejects with a TypeError on a transport failure
NetworkError == [isError |-> TRUE, name |-> "TypeError", message |-> "fetch failed"]
\* fetchNewToken: a non-2xx answer of the auth URL
AuthFailedError == [isError |-> TRUE, name |-> "Error", message |-> "Auth failed with status 400"]
\* a rejection with a value that is not an Error (test 'API throws a string')
StringThrow == [isError |-> FALSE, name |-> "", message |-> "String Error"]

\* request(): the error thrown for a non-2xx status that is not retried
StatusMessage(status) ==
    CASE status = HTTP_STATUS_UNAUTHORIZED -> "API request failed with status 401"
      [] status = HTTP_STATUS_TOO_MANY_REQUESTS -> "API request failed with status 429"
      [] OTHER -> "API request failed with status 500"

RequestError(status) ==
    IF status = HTTP_STATUS_FORBIDDEN
    THEN [isError |-> TRUE, name |-> "Error", message |-> "API returned 403 Forbidden"]
    ELSE [isError |-> TRUE, name |-> "Error", message |-> StatusMessage(status)]

FailStatuses == {HTTP_STATUS_UNAUTHORIZED, HTTP_STATUS_FORBIDDEN,
                 HTTP_STATUS_TOO_MANY_REQUESTS, 500}

RateLimitError == RequestError(HTTP_STATUS_TOO_MANY_REQUESTS)

Errors == {AbortError, NetworkError, AuthFailedError, StringThrow}
          \cup {RequestError(s) : s \in FailStatuses}

NoBody == [present |-> FALSE, hasData |-> FALSE, data |-> {}]

FetchResults == {[resolved |-> TRUE, body |-> b, error |-> NoError] : b \in Bodies}
                \cup {[resolved |-> FALSE, body |-> NoBody, error |-> e] : e \in Errors}

NoResult == [resolved |-> FALSE, body |-> NoBody, error |-> NoError]

\* ================================================================= poller

\* Object.keys(sample.data).length
KeyCount(data) == Cardinality({p[1] : p \in data})

\* poll(): !sample || !sample.data || Object.keys(sample.data).length === 0
IsMalformed(body) == ~body.present \/ ~body.hasData \/ KeyCount(body.data) = 0

\* poll(): error instanceof Error && error.name === 'AbortError'
IsTimeout(error) == error.isError /\ error.name = "AbortError"

\* createInitialState()
NoSample == [isNull |-> TRUE, data |-> {}]
InitialState == [latestSample |-> NoSample, isFaulted |-> FALSE]

\* mutant: the threshold compared with > instead of >=
HandleConsecutiveFailure_LateThreshold(st) ==
    LET n == st.consecutiveFailures + 1 IN
    IF n > FAILURE_THRESHOLD
    THEN [st EXCEPT !.consecutiveFailures = n, !.isFaulted = TRUE, !.onUpdateCalls = @ + 1]
    ELSE [st EXCEPT !.consecutiveFailures = n]

\* handleConsecutiveFailure(): the counter, the fault flag and the onUpdate() calls
HandleConsecutiveFailure(st) ==
    LET n == st.consecutiveFailures + 1 IN
    IF n >= FAILURE_THRESHOLD
    THEN [st EXCEPT !.consecutiveFailures = n, !.isFaulted = TRUE, !.onUpdateCalls = @ + 1]
    ELSE [st EXCEPT !.consecutiveFailures = n]

\* mutant: a success that keeps the soft-failure count
PollSuccess_KeepsCount(st, body) ==
    [st EXCEPT !.latestSample = [isNull |-> FALSE, data |-> body.data],
               !.isFaulted = FALSE,
               !.onUpdateCalls = @ + 1]

\* mutant: a success that leaves an earlier fault standing
PollSuccess_KeepsFault(st, body) ==
    [st EXCEPT !.latestSample = [isNull |-> FALSE, data |-> body.data],
               !.consecutiveFailures = 0,
               !.onUpdateCalls = @ + 1]

\* poll(), success branch
PollSuccess(st, body) ==
    [st EXCEPT !.latestSample = [isNull |-> FALSE, data |-> body.data],
               !.isFaulted = FALSE,
               !.consecutiveFailures = 0,
               !.onUpdateCalls = @ + 1]

\* mutant: a hard failure that drops the stored sample
PollHardFailure_DropsSample(st) ==
    [st EXCEPT !.latestSample = NoSample, !.isFaulted = TRUE, !.consecutiveFailures = 0,
               !.onUpdateCalls = @ + 1]

\* mutant: a hard failure that keeps the soft-failure count
PollHardFailure_KeepsCount(st) ==
    [st EXCEPT !.isFaulted = TRUE, !.onUpdateCalls = @ + 1]

\* poll(), catch branch for an error that is not an AbortError
PollHardFailure(st) ==
    [st EXCEPT !.isFaulted = TRUE, !.consecutiveFailures = 0, !.onUpdateCalls = @ + 1]

\* poll(): the continuation after `await getLatestSamples()`, on the poller's
\* fields st = [latestSample, isFaulted, consecutiveFailures, onUpdateCalls]
PollOutcome(st, r) ==
    IF r.resolved
    THEN IF IsMalformed(r.body) THEN HandleConsecutiveFailure(st) ELSE PollSuccess(st, r.body)
    ELSE IF IsTimeout(r.error) THEN HandleConsecutiveFailure(st) ELSE PollHardFailure(st)

\* Math.floor(Math.random() * 5000), Math.random() = k / RandomSteps
Jitter(k) == (k * JITTER_RANGE_MS) \div RandomSteps

\* a handle no pending timer and no field of the poller holds
FreshTimer == CHOOSE i \in 1..(Cardinality(timers) + 2) :
                 /\ i # pollingInterval
                 /\ \A t \in timers : t.id # i

\* mutant: clearTimeout() that cancels nothing
ClearTimeout_Never(ts, handle) == ts

\* clearTimeout(handle): a no-op for null and for a timer that has fired
ClearTimeout(ts, handle) == {t \in ts : t.id # handle}

\* mutant: start() without its guard
StartIsNoop_Never(polling) == FALSE

\* start(): the early return
StartIsNoop(polling) == polling

\* mutant: scheduleNext() without its guard
ScheduleNextBails_Never(polling) == FALSE

\* scheduleNext(): the early return
ScheduleNextBails(polling) == ~polling

\* the jitter callback: if (!this.isPolling) return
JitterCallbackBails(polling) == ~polling

\* scheduleNext() on the timers and the handle: result <<timers', pollingInterval'>>
ScheduleNext(polling, ts, handle, fresh) ==
    IF ScheduleNextBails(polling)
    THEN <<ts, handle>>
    ELSE <<ClearTimeout(ts, handle)
             \cup {[id |-> fresh, kind |-> "interval", delay |-> DEFAULT_POLL_INTERVAL_MS]},
           fresh>>

PollerInit ==
    /\ isPolling = FALSE
    /\ pollingInterval = NoTimer
    /\ consecutiveFailures = 0
    /\ latestSample = InitialState.latestSample
    /\ isFaulted = InitialState.isFaulted
    /\ timers = {}
    /\ inFlight = 0
    /\ lastOp = "new"
    /\ lastResult = NoResult
    /\ onUpdateCalls = 0
    /\ fetchStarts = 0
    /\ startStreak = 0
    /\ streakFromIdle = FALSE
    /\ stopped = FALSE

\* start()
Start ==
    /\ startStreak < MaxStartStreak
    /\ IF StartIsNoop(isPolling)
       THEN UNCHANGED <<isPolling, pollingInterval, timers>>
       ELSE \E k \in 0..(RandomSteps - 1) :
              /\ isPolling' = TRUE
              /\ timers' = timers \cup {[id |-> FreshTimer, kind |-> "jitter", delay |-> Jitter(k)]}
              /\ pollingInterval' = FreshTimer
    /\ lastOp' = "start"
    /\ startStreak' = startStreak + 1
    /\ streakFromIdle' = IF startStreak = 0 THEN ~isPolling ELSE streakFromIdle
    /\ onUpdateCalls' = 0
    /\ fetchStarts' = 0
    /\ stopped' = FALSE
    /\ UNCHANGED <<consecutiveFailures, latestSample, isFaulted, inFlight, lastResult>>
    /\ UNCHANGED <<apiVars, homeVars>>

\* stop()
Stop ==
    /\ isPolling' = FALSE
    /\ timers' = ClearTimeout(timers, pollingInterval)
    /\ pollingInterval' = NoTimer
    /\ lastOp' = "stop"
    /\ startStreak' = 0
    /\ streakFromIdle' = FALSE
    /\ onUpdateCalls' = 0
    /\ fetchStarts' = 0
    /\ stopped' = TRUE
    /\ UNCHANGED <<consecutiveFailures, latestSample, isFaulted, inFlight, lastResult>>
    /\ UNCHANGED <<apiVars, homeVars>>

\* a pending timer expires and its callback runs up to the await inside poll()
TimerFire(t) ==
    /\ t \in timers
    /\ timers' = timers \ {t}
    /\ IF t.kind = "jitter" /\ JitterCallbackBails(isPolling)
       THEN /\ UNCHANGED inFlight
            /\ fetchStarts' = 0
       ELSE /\ inFlight < MaxInFlight
            /\ inFlight' = inFlight + 1
            /\ fetchStarts' = 1
    /\ lastOp' = "timer"
    /\ startStreak' = 0
    /\ streakFromIdle' = FALSE
    /\ onUpdateCalls' = 0
    /\ UNCHANGED <<isPolling, pollingInterval, consecutiveFailures, latestSample, isFaulted,
                   lastResult, stopped>>
    /\ UNCHANGED <<apiVars, homeVars>>

\* getLatestSamples() settles with r: the rest of poll() runs, then the
\* .finally() callback calls scheduleNext()
PollComplete(r) ==
    /\ inFlight > 0
    /\ r \in FetchResults
    /\ LET st == [latestSample |-> latestSample, isFaulted |-> isFaulted,
                  consecutiveFailures |-> consecutiveFailures, onUpdateCalls |-> 0]
           out == PollOutcome(st, r)
           sched == ScheduleNext(isPolling, timers, pollingInterval, FreshTimer)
       IN /\ out.consecutiveFailures <= MaxFailures
          /\ latestSample' = out.latestSample
          /\ isFaulted' = out.isFaulted
          /\ consecutiveFailures' = out.consecutiveFailures
          /\ onUpdateCalls' = out.onUpdateCalls
          /\ timers' = sched[1]
          /\ pollingInterval' = sched[2]
    /\ inFlight' = inFlight - 1
    /\ lastOp' = "poll"
    /\ lastResult' = r
    /\ startStreak' = 0
    /\ streakFromIdle' = FALSE
    /\ fetchStarts' = 0
    /\ UNCHANGED <<isPolling, stopped>>
    /\ UNCHANGED <<apiVars, homeVars>>

PollerNext ==
    \/ Start
    \/ Stop
    \/ \E t \in timers : TimerFire(t)
    \/ \E r \in FetchResults : PollComplete(r)

\* ================================================= event-emitter poller
\* The DevicePoller that extends EventEmitter: the same timers, no
\* DeviceState; poll() emits 'update' and 'fault'.

\* errMessage.includes('status 429'), over the messages followed
IncludesStatus429(message) == message = StatusMessage(HTTP_STATUS_TOO_MANY_REQUESTS)

\* handleConsecutiveFailure(reason): the counter and the events emitted
EmitterFailure(n) ==
    [consecutiveFailures |-> n + 1,
     events |-> IF n + 1 >= EMITTER_FAULT_AFTER THEN {"fault"} ELSE {}]

\* mutant: an error that is no timeout faults at once, as in the poller that
\* keeps a DeviceState
EmitterError_Immediate(n, message) ==
    IF IncludesStatus429(message)
    THEN [consecutiveFailures |-> n, events |-> {}]
    ELSE [consecutiveFailures |-> 0, events |-> {"fault"}]

\* poll(), catch branch after the AbortError test
EmitterError(n, message) ==
    IF IncludesStatus429(message)
    THEN [consecutiveFailures |-> n, events |-> {}]
    ELSE EmitterFailure(n)

\* poll(): the continuation after `await getLatestSamples()`
EmitterOutcome(n, r) ==
    IF r.resolved
    THEN IF IsMalformed(r.body) THEN EmitterFailure(n)
         ELSE [consecutiveFailures |-> 0, events |-> {"update"}]
    ELSE IF IsTimeout(r.error) THEN EmitterFailure(n)
         ELSE EmitterError(n, r.error.message)

\* poller.on('update', ...) and poller.on('fault', ...) follow the constructor
EmitterInit == emitted = [listening |-> TRUE, events |-> {}]

\* destroy(): stop() and removeAllListeners()
Destroy ==
    /\ isPolling' = FALSE
    /\ timers' = ClearTimeout(timers, pollingInterval)
    /\ pollingInterval' = NoTimer
    /\ emitted' = [listening |-> FALSE, events |-> {}]
    /\ lastOp' = "destroy"
    /\ startStreak' = 0
    /\ streakFromIdle' = FALSE
    /\ onUpdateCalls' = 0
    /\ fetchStarts' = 0
    /\ stopped' = TRUE
    /\ UNCHANGED <<consecutiveFailures, latestSample, isFaulted, inFlight, lastResult>>
    /\ UNCHANGED <<apiVars, platformVars, accessoryVars, fleetVars, http>>

\* getLatestSamples() settles with r: the rest of poll() runs, then the
\* .finally() callback calls scheduleNext()
EmitterPollComplete(r) ==
    /\ inFlight > 0
    /\ r \in FetchResults
    /\ LET out == EmitterOutcome(consecutiveFailures, r)
           sched == ScheduleNext(isPolling, timers, pollingInterval, FreshTimer)
       IN /\ out.consecutiveFailures <= MaxFailures
          /\ consecutiveFailures' = out.consecutiveFailures
          /\ emitted' = [emitted EXCEPT !.events = out.events]
          /\ timers' = sched[1]
          /\ pollingInterval' = sched[2]
    /\ inFlight' = inFlight - 1
    /\ lastOp' = "poll"
    /\ lastResult' = r
    /\ startStreak' = 0
    /\ streakFromIdle' = FALSE
    /\ fetchStarts' = 0
    /\ onUpdateCalls' = 0
    /\ UNCHANGED <<isPolling, stopped, latestSample, isFaulted>>
    /\ UNCHANGED <<apiVars, platformVars, accessoryVars, fleetVars, http>>

EmitterNext ==
    \/ Start
    \/ Destroy
    \/ \E t \in timers : TimerFire(t)
    \/ \E r \in FetchResults : EmitterPollComplete(r)

\* ========================================================== timed HTTP call
\* One call through fetchWithTimeout() and the reading of its body, against
\* the clock. fetch() settles when the response headers arrive; the caller
\* then awaits response.json().

HttpKinds == {"auth", "api"}

IdleHttp == [phase |-> "idle", kind |-> "none", sentAt |-> 0, outcome |-> "none"]

\* the instant the abort timer of the call is due
AbortDue(h) == h.sentAt + FETCH_TIMEOUT_MS

\* setTimeout(() => controller.abort(), 10000) is pending: set by
\* fetchWithTimeout(), cleared by its finally block
AbortTimerPending(h) == h.phase = "fetching"

TimeoutInit == http = IdleHttp

\* fetchNewToken() / request() call fetchWithTimeout(): the timer is set and
\* the request sent
HttpSend(kind) ==
    /\ http.phase \in {"idle", "settled"}
    /\ http' = [phase |-> "fetching", kind |-> kind, sentAt |-> now, outcome |-> "none"]
    /\ UNCHANGED <<now, clientVars>>
    /\ UNCHANGED <<pollerVars, platformVars, accessoryVars, fleetVars, emitted>>

\* the response headers arrive: fetch() resolves, finally clears the timer;
\* an ok response goes on to `await response.json()`, another one throws
HttpRespond(ok) ==
    /\ http.phase = "fetching"
    /\ http' = IF ok THEN [http EXCEPT !.phase = "reading"]
               ELSE [http EXCEPT !.phase = "settled", !.outcome = "status"]
    /\ UNCHANGED <<now, clientVars>>
    /\ UNCHANGED <<pollerVars, platformVars, accessoryVars, fleetVars, emitted>>

\* fetch() rejects with a transport failure; finally clears the timer
HttpNetworkFail ==
    /\ http.phase = "fetching"
    /\ http' = [http EXCEPT !.phase = "settled", !.outcome = "network"]
    /\ UNCHANGED <<now, clientVars>>
    /\ UNCHANGED <<pollerVars, platformVars, accessoryVars, fleetVars, emitted>>

\* the timer fires: controller.abort() rejects fetch() with an AbortError
HttpAbort ==
    /\ AbortTimerPending(http)
    /\ now >= AbortDue(http)
    /\ http' = [http EXCEPT !.phase = "settled", !.outcome = "abort"]
    /\ UNCHANGED <<now, clientVars>>
    /\ UNCHANGED <<pollerVars, platformVars, accessoryVars, fleetVars, emitted>>

\* the body arrives and response.json() settles, with a value or a SyntaxError
HttpBody(parsed) ==
    /\ http.phase = "reading"
    /\ http' = [http EXCEPT !.phase = "settled",
                            !.outcome = IF parsed THEN "ok" ELSE "syntax"]
    /\ UNCHANGED <<now, clientVars>>
    /\ UNCHANGED <<pollerVars, platformVars, accessoryVars, fleetVars, emitted>>

\* time passes; a pending timer fires when it is due, not later
HttpTick ==
    /\ now < MaxHttpNow
    /\ ~(AbortTimerPending(http) /\ now >= AbortDue(http))
    /\ LET next == IF now + HttpTickStep > MaxHttpNow THEN MaxHttpNow ELSE now + HttpTickStep
       IN now' = IF AbortTimerPending(http) /\ next > AbortDue(http)
                 THEN AbortDue(http) ELSE next
    /\ UNCHANGED <<http, clientVars>>
    /\ UNCHANGED <<pollerVars, platformVars, accessoryVars, fleetVars, emitted>>

TimeoutNext ==
    \/ \E kind \in HttpKinds : HttpSend(kind)
    \/ \E ok \in BOOLEAN : HttpRespond(ok)
    \/ HttpNetworkFail
    \/ HttpAbort
    \/ \E parsed \in BOOLEAN : HttpBody(parsed)
    \/ HttpTick

\* ============================================================= API client

\* the tasks that use the client at the same time (pollers, discovery)
Callers == {"A", "B"}

\* expires_in (seconds) of the OAuthResponse
ExpiresInValues == {0, 60, 90, 3600}

\* no token in the cache
NoOAuth == [expiresIn |-> 0, at |-> 0]

\* how a credential exchange can fail: non-2xx answer, transport failure, 10 s abort
ExchangeFailures == {AuthFailedError, NetworkError, AbortError}

\* how fetchWithTimeout() settles for an API call
ApiAnswers == {[how |-> "response", status |-> s] : s \in {HTTP_STATUS_OK} \cup FailStatuses}
              \cup {[how |-> "network", status |-> 0], [how |-> "abort", status |-> 0]}

IdleCaller == [pc |-> "idle", op |-> "none", isRetry |-> FALSE, token |-> NoToken,
               waitOn |-> NoExchange, batch |-> 0, apiCalls |-> 0, responses |-> <<>>,
               exchAfter401 |-> 0, solo |-> FALSE, error |-> NoError]

\* credential exchanges that have completed
Completed == exchanges - Cardinality(authInFlight)

\* mutant: a token still served at the instant it expires
TokenIsValid_Inclusive(token, t, expiry) == token # NoToken /\ t <= expiry

\* getToken(): this.accessToken && Date.now() < this.tokenExpirationTime
TokenIsValid(token, t, expiry) == token # NoToken /\ t < expiry

\* mutant: getToken() that never joins a refresh in flight
HasRefreshInFlight_Never(promise) == FALSE

\* getToken(): if (this.tokenRefreshPromise)
HasRefreshInFlight(promise) == promise # NoExchange

\* mutant: getToken() that starts a refresh whenever the cache cannot serve
GetTokenDecision_Eager(token, t, expiry, promise) ==
    IF TokenIsValid(token, t, expiry) THEN "cached" ELSE "start"

\* getToken(): serve the cache, join the refresh in flight, or start one
GetTokenDecision(token, t, expiry, promise) ==
    IF TokenIsValid(token, t, expiry) THEN "cached"
    ELSE IF HasRefreshInFlight(promise) THEN "join"
    ELSE "start"

\* mutant: the expiry without the refresh margin
ComputeExpiry_NoMargin(t, expiresIn) == t + (expiresIn * 1000)

\* fetchNewToken(): Math.max(Date.now(), Date.now() + expires_in * 1000 - margin)
ComputeExpiry(t, expiresIn) == Max(t, t + (expiresIn * 1000) - TOKEN_REFRESH_MARGIN_MS)

\* mutant: every failed first call is retried
ShouldRetry_AnyStatus(status, isRetry) == ~isRetry

\* mutant: a 401 retried whether or not the call is itself a retry
ShouldRetry_Always(status, isRetry) == status = HTTP_STATUS_UNAUTHORIZED

\* request(): response.status === HTTP_STATUS_UNAUTHORIZED && !isRetry
ShouldRetry(status, isRetry) == status = HTTP_STATUS_UNAUTHORIZED /\ ~isRetry

ApiInit ==
    /\ accessToken = NoToken
    /\ tokenExpirationTime = 0
    /\ tokenRefreshPromise = NoExchange
    /\ oauth = NoOAuth
    /\ now = 0
    /\ authInFlight = {}
    /\ exchanges = 0
    /\ callers = [c \in Callers |-> IdleCaller]

\* request(): the fetch sent once the token is known
SendApiCall(cr, token) ==
    [cr EXCEPT !.pc = "awaitApi", !.token = token, !.waitOn = NoExchange,
               !.apiCalls = @ + 1]

\* the caller's `await this.getToken()` resumes with a token
ResumeWithToken(cr, token) ==
    IF cr.op = "request" THEN SendApiCall(cr, token)
    ELSE [cr EXCEPT !.pc = "done", !.token = token]

\* mutant: the awaiting getToken() never hears of the failure
ResumeWithError_Never(cr, err) == cr

\* the caller's `await this.getToken()` throws
ResumeWithError(cr, err) == [cr EXCEPT !.pc = "failed", !.token = NoToken, !.error = err]

\* another task starts a call: the calls under way are no longer alone
NotAlone(cs, c) ==
    [d \in Callers |-> IF d # c /\ cs[d].pc \in {"awaitToken", "awaitApi"}
                       THEN [cs[d] EXCEPT !.solo = FALSE] ELSE cs[d]]

\* getToken() as called by caller record cr: the client's fields and the
\* caller afterwards. Guarded by the bound on exchanges when it starts one.
GetToken(c, cr, token, expiry, cs) ==
    LET d == GetTokenDecision(token, now, expiry, tokenRefreshPromise)
        e == exchanges + 1
        waiting == [cr EXCEPT !.batch = Completed]
    IN CASE d = "cached" ->
              /\ callers' = [cs EXCEPT ![c] = ResumeWithToken(waiting, token)]
              /\ UNCHANGED <<tokenRefreshPromise, authInFlight, exchanges>>
         [] d = "join" ->
              /\ callers' = [cs EXCEPT ![c] = [waiting EXCEPT !.pc = "awaitToken",
                                                             !.waitOn = tokenRefreshPromise]]
              /\ UNCHANGED <<tokenRefreshPromise, authInFlight, exchanges>>
         [] d = "start" ->
              /\ exchanges < MaxExchanges
              /\ exchanges' = e
              /\ authInFlight' = authInFlight \cup {e}
              /\ tokenRefreshPromise' = e
              /\ callers' = [cs EXCEPT ![c] =
                               [waiting EXCEPT !.pc = "awaitToken", !.waitOn = e,
                                               !.exchAfter401 =
                                                  IF cr.isRetry THEN @ + 1 ELSE @]]

\* a task calls getToken()
CallGetToken(c) ==
    /\ callers[c].pc = "idle"
    /\ GetToken(c, [IdleCaller EXCEPT !.op = "getToken"],
                accessToken, tokenExpirationTime, NotAlone(callers, c))
    /\ UNCHANGED <<accessToken, tokenExpirationTime, oauth, now>>
    /\ UNCHANGED <<pollerVars, homeVars>>

\* a task calls request() (getDevices() or getLatestSamples())
CallRequest(c) ==
    /\ callers[c].pc = "idle"
    /\ GetToken(c, [IdleCaller EXCEPT !.op = "request",
                       !.solo = \A d \in Callers \ {c} :
                                   callers[d].pc \notin {"awaitToken", "awaitApi"}],
                accessToken, tokenExpirationTime, NotAlone(callers, c))
    /\ UNCHANGED <<accessToken, tokenExpirationTime, oauth, now>>
    /\ UNCHANGED <<pollerVars, homeVars>>

\* the auth URL answers 2xx: fetchNewToken() caches the token, the finally()
\* clears the marker, and every getToken() awaiting this exchange resumes
ExchangeSucceed(e, expiresIn) ==
    /\ e \in authInFlight
    /\ authInFlight' = authInFlight \ {e}
    /\ accessToken' = e
    /\ tokenExpirationTime' = ComputeExpiry(now, expiresIn)
    /\ oauth' = [expiresIn |-> expiresIn, at |-> now]
    /\ tokenRefreshPromise' = NoExchange
    /\ callers' = [c \in Callers |->
                     IF callers[c].pc = "awaitToken" /\ callers[c].waitOn = e
                     THEN ResumeWithToken(callers[c], e) ELSE callers[c]]
    /\ UNCHANGED <<now, exchanges>>
    /\ UNCHANGED <<pollerVars, homeVars>>

\* the exchange fails: the catch clears the cache and rethrows, the finally()
\* clears the marker, and every getToken() awaiting this exchange throws
ExchangeFail(e, err) ==
    /\ e \in authInFlight
    /\ authInFlight' = authInFlight \ {e}
    /\ accessToken' = NoToken
    /\ tokenExpirationTime' = 0
    /\ oauth' = NoOAuth
    /\ tokenRefreshPromise' = NoExchange
    /\ callers' = [c \in Callers |->
                     IF callers[c].pc = "awaitToken" /\ callers[c].waitOn = e
                     THEN ResumeWithError(callers[c], err) ELSE callers[c]]
    /\ UNCHANGED <<now, exchanges>>
    /\ UNCHANGED <<pollerVars, homeVars>>

\* an API call of request() settles with answer a
ApiAnswer(c, a) ==
    /\ callers[c].pc = "awaitApi"
    /\ LET cr == [callers[c] EXCEPT !.responses = Append(@, a)] IN
       IF a.how = "response" /\ a.status = HTTP_STATUS_OK
       THEN /\ callers' = [callers EXCEPT ![c] = [cr EXCEPT !.pc = "done"]]
            /\ UNCHANGED <<accessToken, tokenExpirationTime, oauth, tokenRefreshPromise,
                           authInFlight, exchanges>>
       ELSE IF a.how = "response" /\ ShouldRetry(a.status, cr.isRetry)
       THEN /\ cr.apiCalls < MaxApiCalls
            /\ accessToken' = NoToken
            /\ tokenExpirationTime' = 0
            /\ oauth' = NoOAuth
            /\ GetToken(c, [cr EXCEPT !.isRetry = TRUE], NoToken, 0, callers)
       ELSE /\ callers' = [callers EXCEPT ![c] =
                             [cr EXCEPT !.pc = "failed",
                                        !.error = CASE a.how = "abort" -> AbortError
                                                    [] a.how = "network" -> NetworkError
                                                    [] OTHER -> RequestError(a.status)]]
            /\ UNCHANGED <<accessToken, tokenExpirationTime, oauth, tokenRefreshPromise,
                           authInFlight, exchanges>>
    /\ UNCHANGED now
    /\ UNCHANGED <<pollerVars, homeVars>>

\* the task takes its result and is ready for its next call
Return(c) ==
    /\ callers[c].pc \in {"done", "failed"}
    /\ callers' = [callers EXCEPT ![c] = IdleCaller]
    /\ UNCHANGED <<accessToken, tokenExpirationTime, oauth, tokenRefreshPromise, now,
                   authInFlight, exchanges>>
    /\ UNCHANGED <<pollerVars, homeVars>>

\* time passes
Tick ==
    /\ now + TickStep <= MaxNow
    /\ now' = now + TickStep
    /\ UNCHANGED <<accessToken, tokenExpirationTime, oauth, tokenRefreshPromise, authInFlight,
                   exchanges, callers>>
    /\ UNCHANGED <<pollerVars, homeVars>>

ApiNext ==
    \/ \E c \in Callers : CallGetToken(c)
    \/ \E c \in Callers : CallRequest(c)
    \/ \E e \in authInFlight, s \in ExpiresInValues : ExchangeSucceed(e, s)
    \/ \E e \in authInFlight, err \in ExchangeFailures : ExchangeFail(e, err)
    \/ \E c \in Callers, a \in ApiAnswers : ApiAnswer(c, a)
    \/ \E c \in Callers : Return(c)
    \/ Tick

\* ================================================================ platform
\* AirthingsHubPlatform (src/unnamed/part_000): the accessory collection, the
\* wrappers it attaches and the reconciliation of both with the device list.

\* AirthingsDevice: id, deviceType, location name, sensors
WavePlus == [id |-> "d1", deviceType |-> "WAVE_PLUS", location |-> "Cellar",
             sensors |-> {"radonShortTermAvg", "co2", "voc", "battery"}]
WaveMini == [id |-> "d2", deviceType |-> "WAVE_MINI", location |-> "Hall",
             sensors |-> {"voc", "battery"}]
Hub == [id |-> "h1", deviceType |-> DEVICE_TYPE_HUB, location |-> "Hall", sensors |-> {}]
\* the devices the Airthings account can hold
Devices == {WavePlus, WaveMini, Hub}
\* the copy of a device an earlier run stored, before its owner moved it
Stale(device) == [device EXCEPT !.location = "Garage"]

\* the device lists the Airthings API can answer with; one id names one device,
\* an entry may be repeated
DeviceLists == {l \in UNION {[1..n -> Devices] : n \in 0..MaxDevices} :
                  \A i, j \in DOMAIN l : l[i].id = l[j].id => l[i] = l[j]}

\* how `await this.apiClient.getDevices()` settles inside discoverDevices():
\* request('/devices') throws, or answers a body with or without `devices`
DevicesResponses == {[hasDevices |-> FALSE, devices |-> <<>>]}
                    \cup {[hasDevices |-> TRUE, devices |-> l] : l \in DeviceLists}
DiscoveryResults == {[resolved |-> TRUE, response |-> b, error |-> NoError] : b \in DevicesResponses}
                    \cup {[resolved |-> FALSE, response |-> [hasDevices |-> FALSE, devices |-> <<>>],
                           error |-> e] : e \in {NetworkError, StringThrow}}

\* no discovery has run yet
NoDiscovery == [resolved |-> FALSE, response |-> [hasDevices |-> FALSE, devices |-> <<>>],
                error |-> NoError]

\* getDevices(): response.devices || []
GetDevices(response) == IF response.hasDevices THEN response.devices ELSE <<>>

\* parseConfig(): the fields the platform and its accessories read
DefaultConfig == [radonThreshold |-> 150, sensors |-> {"radon", "battery"},
                  orphanGracePeriodDays |-> 14, ignoredDevices |-> {}, includedDevices |-> {}]

\* the configurations followed: <<orphanGracePeriodDays, ignoredDevices,
\* includedDevices, radonThreshold, sensors>>
ConfigChoices == {<<0, {}, {}, 150, {"radon", "battery"}>>,
                  <<1, {}, {}, 200, {"radon", "co2", "voc", "battery"}>>,
                  <<0, {"d2"}, {}, 0, {"radon", "battery"}>>,
                  <<1, {"d2"}, {}, 150, {"battery"}>>,
                  <<0, {}, {"d1"}, 150, {"radon", "battery"}>>,
                  <<1, {}, {"d1"}, 150, {"radon", "battery"}>>,
                  <<-1, {}, {}, 150, {"radon", "battery"}>>,
                  <<1, {"d2"}, {"d1", "d2"}, 150, {"radon", "battery"}>>}
Configs == {[DefaultConfig EXCEPT !.orphanGracePeriodDays = c[1], !.ignoredDevices = c[2],
                                  !.includedDevices = c[3], !.radonThreshold = c[4],
                                  !.sensors = c[5]] : c \in ConfigChoices}

\* the values Date.now() takes when a discovery runs
Instants == {0, 1, DAY_MS, DAY_MS + 1}

\* api.hap.uuid.generate(device.id): deterministic, one UUID per id
UUID(id) == <<"uuid", id>>

\* context.orphanedSince: a number, or undefined
NotOrphaned == [isNumber |-> FALSE, value |-> 0]
OrphanedAt(t) == [isNumber |-> TRUE, value |-> t]

\* a PlatformAccessory: its UUID, context.device, context.orphanedSince and
\* the StatusFault its services show
NewAccessory(uuid, device) ==
    [UUID |-> uuid, device |-> device, orphanedSince |-> NotOrphaned, statusFault |-> "NO_FAULT"]

\* the accessories Homebridge can restore from its cache: written by an
\* earlier run, one of them already marked orphaned by it
CachedAccessories ==
    {NewAccessory(UUID(WavePlus.id), Stale(WavePlus)),
     [NewAccessory(UUID(WavePlus.id), Stale(WavePlus)) EXCEPT !.orphanedSince = OrphanedAt(0)],
     NewAccessory(UUID(WaveMini.id), Stale(WaveMini))}

\* mutant: includedDevices overrides ignoredDevices
ShouldIgnoreDevice_IncludedWins(cfg, device) ==
    \/ device.deviceType = DEVICE_TYPE_HUB
    \/ IF cfg.includedDevices # {}
       THEN device.id \notin cfg.includedDevices
       ELSE device.id \in cfg.ignoredDevices

\* shouldIgnoreDevice(device)
ShouldIgnoreDevice(cfg, device) ==
    IF device.deviceType = DEVICE_TYPE_HUB THEN TRUE
    ELSE IF device.id \in cfg.ignoredDevices THEN TRUE
    ELSE IF cfg.includedDevices # {} /\ device.id \notin cfg.includedDevices THEN TRUE
    ELSE FALSE

\* mutant: find() never finds the accessory
FindAccessory_Never(accs, uuid) == 0

\* this.accessories.find(acc => acc.UUID === uuid): its index, 0 for undefined
FindAccessory(accs, uuid) ==
    IF \E i \in DOMAIN accs : accs[i].UUID = uuid
    THEN CHOOSE i \in DOMAIN accs :
            accs[i].UUID = uuid /\ \A j \in 1..(i - 1) : accs[j].UUID # uuid
    ELSE 0

\* Map.set(key, value)
MapSet(map, key, value) == [k \in DOMAIN map \cup {key} |-> IF k = key THEN value ELSE map[k]]
\* Map.delete(key) for every key of keys
MapDelete(map, keys) == [k \in DOMAIN map \ keys |-> map[k]]
EmptyMap == [k \in {} |-> 0]

\* new AirthingsHubAccessory(platform, accessory): configureServices() shows
\* NO_FAULT on every active service, then a new DevicePoller is started
NewWrapper(device) == [device |-> device.id, isPolling |-> TRUE]

\* mutant: an existing accessory is registered again and its context kept
AttachDevice_KeepsContext(P, cfg, device) ==
    IF ShouldIgnoreDevice(cfg, device) THEN P
    ELSE LET uuid == UUID(device.id)
             found == FindAccessory(P.accessories, uuid)
             idx == IF found # 0 THEN found ELSE Len(P.accessories) + 1
             accs == IF found # 0 THEN P.accessories
                     ELSE Append(P.accessories, NewAccessory(uuid, device))
             ws == Append(P.wrappers, NewWrapper(device))
         IN [P EXCEPT !.accessories = [accs EXCEPT ![idx].statusFault = "NO_FAULT"],
                      !.registerCalls = Append(@, uuid),
                      !.wrappers = ws,
                      !.activeWrappers = MapSet(@, uuid, Len(ws))]

\* discoverDevices(): the body of the loop for one device.
\* P = [accessories, activeWrappers, wrappers, registerCalls, updateCalls, unregisterCalls]
AttachDevice(P, cfg, device) ==
    IF ShouldIgnoreDevice(cfg, device) THEN P
    ELSE LET uuid == UUID(device.id)
             found == FindAccessory(P.accessories, uuid)
             idx == IF found # 0 THEN found ELSE Len(P.accessories) + 1
             accs == IF found # 0 THEN [P.accessories EXCEPT ![found].device = device]
                     ELSE Append(P.accessories, NewAccessory(uuid, device))
             ws == Append(P.wrappers, NewWrapper(device))
         IN [P EXCEPT !.accessories = [accs EXCEPT ![idx].statusFault = "NO_FAULT"],
                      !.registerCalls = IF found # 0 THEN @ ELSE Append(@, uuid),
                      !.updateCalls = IF found # 0 THEN Append(@, uuid) ELSE @,
                      !.wrappers = ws,
                      !.activeWrappers = MapSet(@, uuid, Len(ws))]

\* discoverDevices(): for (const device of devices), from entry i on
RECURSIVE DiscoverLoop(_, _, _, _)
DiscoverLoop(P, cfg, devices, i) ==
    IF i > Len(devices) THEN P
    ELSE DiscoverLoop(AttachDevice(P, cfg, devices[i]), cfg, devices, i + 1)

\* mutant: only a device missing upstream makes an orphan
ShouldRemove_MissingOnly(acc, cfg, activeDevices) ==
    ~\E i \in DOMAIN activeDevices : activeDevices[i].id = acc.device.id

\* cleanupOrphanedAccessories(): shouldRemove
ShouldRemove(acc, cfg, activeDevices) ==
    \/ ~\E i \in DOMAIN activeDevices : activeDevices[i].id = acc.device.id
    \/ ShouldIgnoreDevice(cfg, acc.device)

\* cleanupOrphanedAccessories(): orphanGracePeriodMs
OrphanGracePeriodMs(cfg) == cfg.orphanGracePeriodDays * DAY_MS

\* mutant: the boundary counts as expired
GraceExpired_AtBoundary(t, since, graceMs) == t - since >= graceMs

\* cleanupOrphanedAccessories(): now - orphanedSince > orphanGracePeriodMs
GraceExpired(t, since, graceMs) == t - since > graceMs

\* mutant: an orphan keeps the marker it had, even none
MarkOrphaned_Never(acc, t) == acc

\* cleanupOrphanedAccessories(): orphanedSince = now unless it is a number
MarkOrphaned(acc, t) ==
    IF acc.orphanedSince.isNumber THEN acc ELSE [acc EXCEPT !.orphanedSince = OrphanedAt(t)]

\* the accessories of accs, from index i on, that are not in the set drop of indexes
RECURSIVE Splice(_, _, _)
Splice(accs, drop, i) ==
    IF i > Len(accs) THEN <<>>
    ELSE IF i \in drop THEN Splice(accs, drop, i + 1)
    ELSE <<accs[i]>> \o Splice(accs, drop, i + 1)

\* the UUIDs of the accessories of accs with an index in drop, from index i on
RECURSIVE Removed(_, _, _)
Removed(accs, drop, i) ==
    IF i > Len(accs) THEN <<>>
    ELSE IF i \in drop THEN <<accs[i].UUID>> \o Removed(accs, drop, i + 1)
    ELSE Removed(accs, drop, i + 1)

\* the evict branch, on the wrappers: Map.get(UUID), stopPolling()
StopEvicted(ws, map, uuids) ==
    [w \in DOMAIN ws |->
        IF \E u \in uuids : u \in DOMAIN map /\ map[u] = w
        THEN [ws[w] EXCEPT !.isPolling = FALSE]
        ELSE ws[w]]

\* cleanupOrphanedAccessories(activeDevices) at Date.now() = t
CleanupOrphanedAccessories(P, cfg, activeDevices, t) ==
    LET accs == P.accessories
        orphan(i) == ShouldRemove(accs[i], cfg, activeDevices)
        marked == [i \in DOMAIN accs |->
                     IF orphan(i) THEN MarkOrphaned(accs[i], t)
                     ELSE [accs[i] EXCEPT !.orphanedSince = NotOrphaned]]
        toRemove == {i \in DOMAIN accs :
                       orphan(i) /\ GraceExpired(t, marked[i].orphanedSince.value,
                                                 OrphanGracePeriodMs(cfg))}
        flagged == [i \in DOMAIN accs |->
                      IF orphan(i) /\ i \notin toRemove
                      THEN [marked[i] EXCEPT !.statusFault = "GENERAL_FAULT"]
                      ELSE marked[i]]
        uuids == {accs[i].UUID : i \in toRemove}
    IN [P EXCEPT !.accessories = Splice(flagged, toRemove, 1),
                 !.unregisterCalls = Removed(accs, toRemove, 1),
                 !.wrappers = StopEvicted(P.wrappers, P.activeWrappers, uuids),
                 !.activeWrappers = MapDelete(P.activeWrappers, uuids)]

\* the didFinishLaunching handler's catch: err instanceof Error ? err.message : String(err)
DiscoveryErrorMessage(err) == err.message

\* mutant: a failed device list is handled like an empty one
DiscoverDevices_FailureIsEmpty(P, cfg, res, t) ==
    LET devices == IF res.resolved THEN GetDevices(res.response) ELSE <<>> IN
    IF Len(devices) = 0
    THEN [CleanupOrphanedAccessories(P, cfg, <<>>, t)
            EXCEPT !.outcome = IF res.resolved THEN "empty" ELSE "failed",
                   !.errorLog = IF res.resolved THEN "" ELSE DiscoveryErrorMessage(res.error)]
    ELSE [CleanupOrphanedAccessories(DiscoverLoop(P, cfg, devices, 1), cfg, devices, t)
            EXCEPT !.outcome = "reconciled"]

\* discoverDevices() from the point where getDevices() has settled with res,
\* under the handler's .catch(); errorLog is what log.error() was given
DiscoverDevices(P, cfg, res, t) ==
    IF ~res.resolved
    THEN [P EXCEPT !.outcome = "failed", !.errorLog = DiscoveryErrorMessage(res.error)]
    ELSE LET devices == GetDevices(res.response) IN
         IF Len(devices) = 0
         THEN [CleanupOrphanedAccessories(P, cfg, <<>>, t) EXCEPT !.outcome = "empty"]
         ELSE [CleanupOrphanedAccessories(DiscoverLoop(P, cfg, devices, 1), cfg, devices, t)
                 EXCEPT !.outcome = "reconciled"]

PlatformInit ==
    /\ phase = "new"
    /\ config = DefaultConfig
    /\ accessories = <<>>
    /\ activeWrappers = EmptyMap
    /\ wrappers = <<>>
    /\ reconciles = 0
    /\ lastDiscovery = [outcome |-> "none", result |-> NoDiscovery, at |-> 0,
                        before |-> [accessories |-> <<>>, activeWrappers |-> EmptyMap,
                                    wrappers |-> <<>>],
                        errorLog |-> "", registerCalls |-> <<>>, updateCalls |-> <<>>,
                        unregisterCalls |-> <<>>]

\* new AirthingsHubPlatform(log, config, api) with credentials present
NewPlatform(cfg) ==
    /\ phase = "new"
    /\ config' = cfg
    /\ phase' = "constructed"
    /\ UNCHANGED <<accessories, activeWrappers, wrappers, reconciles, lastDiscovery>>
    /\ UNCHANGED <<pollerVars, apiVars, accessoryVars, fleetVars, variantVars>>

\* configureAccessory(accessory): Homebridge restores a cached accessory before
\* launch; its cache holds one accessory per UUID
ConfigureAccessory(acc) ==
    /\ phase = "constructed"
    /\ \A i \in DOMAIN accessories : accessories[i].UUID # acc.UUID
    /\ accessories' = Append(accessories, acc)
    /\ UNCHANGED <<config, phase, activeWrappers, wrappers, reconciles, lastDiscovery>>
    /\ UNCHANGED <<pollerVars, apiVars, accessoryVars, fleetVars, variantVars>>

\* the didFinishLaunching handler, or a later discoverDevices() under the same
\* catch: getDevices() settles with res at Date.now() = t
Discover(res, t) ==
    /\ phase \in {"constructed", "launched"}
    /\ reconciles < MaxReconciles
    /\ t >= now
    /\ LET P == [accessories |-> accessories, activeWrappers |-> activeWrappers,
                 wrappers |-> wrappers, outcome |-> "none", errorLog |-> "",
                 registerCalls |-> <<>>, updateCalls |-> <<>>, unregisterCalls |-> <<>>]
       IN \E Q \in {DiscoverDevices(P, config, res, t)} :
          /\ accessories' = Q.accessories
          /\ activeWrappers' = Q.activeWrappers
          /\ wrappers' = Q.wrappers
          /\ lastDiscovery' = [outcome |-> Q.outcome, result |-> res, at |-> t,
                               before |-> [accessories |-> accessories,
                                           activeWrappers |-> activeWrappers,
                                           wrappers |-> wrappers],
                               errorLog |-> Q.errorLog, registerCalls |-> Q.registerCalls,
                               updateCalls |-> Q.updateCalls,
                               unregisterCalls |-> Q.unregisterCalls]
    /\ now' = t
    /\ phase' = "launched"
    /\ reconciles' = reconciles + 1
    /\ UNCHANGED config
    /\ UNCHANGED <<pollerVars, clientVars, accessoryVars, fleetVars, variantVars>>

\* the shutdown handler, on the wrappers: stopPolling() of every value of
\* this.activeWrappers
StopActive(ws, map) ==
    [w \in DOMAIN ws |->
        IF \E u \in DOMAIN map : map[u] = w
        THEN [ws[w] EXCEPT !.isPolling = FALSE]
        ELSE ws[w]]

\* Homebridge emits 'shutdown'
Shutdown ==
    /\ phase \in {"constructed", "launched"}
    /\ wrappers' = StopActive(wrappers, activeWrappers)
    /\ phase' = "shutdown"
    /\ UNCHANGED <<config, accessories, activeWrappers, reconciles, lastDiscovery>>
    /\ UNCHANGED <<pollerVars, apiVars, accessoryVars, fleetVars, variantVars>>

PlatformNext ==
    \/ \E cfg \in Configs : NewPlatform(cfg)
    \/ \E acc \in CachedAccessories : ConfigureAccessory(acc)
    \/ \E res \in DiscoveryResults, t \in Instants : Discover(res, t)
    \/ Shutdown

\* ---------------------------------------- the platform with its pollers
\* The wrapper the platform keeps for an accessory holds that accessory and
\* a running DevicePoller, whose onUpdate() is the wrapper's onStateUpdate().

\* applyFaultState(faultStatus) on the accessory at index i
ApplyFaultTo(accs, i, faultStatus) == [accs EXCEPT ![i].statusFault = faultStatus]

\* the poller of wrapper w calls onUpdate() with state.isFaulted = faulted
WrapperNotify(w, faulted) ==
    /\ phase = "launched"
    /\ w \in DOMAIN wrappers
    /\ wrappers[w].isPolling
    /\ LET uuid == UUID(wrappers[w].device)
           i == FindAccessory(accessories, uuid)
       IN /\ uuid \in DOMAIN activeWrappers
          /\ activeWrappers[uuid] = w
          /\ i # 0
          /\ accessories' = ApplyFaultTo(accessories, i,
                                IF faulted THEN "GENERAL_FAULT" ELSE "NO_FAULT")
    /\ UNCHANGED <<config, activeWrappers, phase, wrappers, reconciles, lastDiscovery>>
    /\ UNCHANGED <<pollerVars, apiVars, accessoryVars, fleetVars, variantVars>>

GraceNext ==
    \/ \E cfg \in Configs : NewPlatform(cfg)
    \/ \E acc \in CachedAccessories : ConfigureAccessory(acc)
    \/ \E res \in DiscoveryResults, t \in Instants :
          reconciles < MaxGraceReconciles /\ Discover(res, t)
    \/ \E w \in DOMAIN wrappers, faulted \in BOOLEAN : WrapperNotify(w, faulted)

\* =============================================================== accessory
\* AirthingsHubAccessory (src/src/accessory.ts, state-based variant): the
\* services it exposes and what onStateUpdate() writes to them.

\* latestSample values a notification can find in the DeviceState
PresentedData == SampleData \cup {{<<"radonShortTermAvg", 150>>}, {<<"battery", 50>>}}
                 \cup {{<<"voc", v>>} : v \in {250, 251, 500, 501, 1000, 1001, 2000, 2001}}
                 \cup {{<<"co2", c>>} : c \in {1000, 1001}}
                 \cup {{<<"battery", b>>} : b \in {19, 20}}
                 \cup {{<<"voc", 100>>, <<"co2", 800>>, <<"battery", 10>>}}
DeviceStates == {[isFaulted |-> f, latestSample |-> s] :
                   f \in BOOLEAN,
                   s \in {NoSample} \cup {[isNull |-> FALSE, data |-> d] : d \in PresentedData}}

\* typeof data[field] === 'number'
IsNumber(data, field) == \E p \in data : p[1] = field
\* data[field]
FieldValue(data, field) == (CHOOSE p \in data : p[1] = field)[2]

\* configureServices(): sensorMapping
SensorMapping(sensorKey) == IF sensorKey = "radon" THEN "radonShortTermAvg" ELSE sensorKey

\* configureServices(): activeSensors, the keys of this.services
ActiveSensors(cfg, device) ==
    {k \in cfg.sensors : k = "battery" \/ SensorMapping(k) \in device.sensors}

\* a level characteristic that has not been written
NoLevel == -1

\* the keys this.services can hold
SensorKeys == {"radon", "co2", "voc", "temp", "humidity", "battery"}

\* the characteristics before the wrapper exists; lowBattery is the
\* StatusLowBattery of each service
NoCharacteristics == [statusFault |-> "none", leakDetected |-> "none", airQuality |-> "none",
                      co2Detected |-> "none", lowBattery |-> [k \in SensorKeys |-> "none"],
                      co2Level |-> NoLevel, vocDensity |-> NoLevel, batteryLevel |-> NoLevel]

\* configureServices(): getOrAddService() shows NO_FAULT on every active
\* service; manageRadonService() gives a new LeakSensor LEAK_NOT_DETECTED
ConfigureServices(svcs) ==
    [NoCharacteristics EXCEPT
        !.statusFault = IF svcs # {} THEN "NO_FAULT" ELSE "none",
        !.leakDetected = IF "radon" \in svcs THEN "LEAK_NOT_DETECTED" ELSE "none"]

\* applyFaultState(faultStatus)
ApplyFaultState(chars, svcs, faultStatus) ==
    IF svcs # {} THEN [chars EXCEPT !.statusFault = faultStatus] ELSE chars

\* mutant: the threshold itself counts as a leak
IsLeak_Inclusive(radonLevel, cfg) == radonLevel >= cfg.radonThreshold

\* updateRadonCharacteristics(): isLeak
IsLeak(radonLevel, cfg) == radonLevel > cfg.radonThreshold

\* updateRadonCharacteristics(data.radonShortTermAvg)
UpdateRadonCharacteristics(chars, svcs, cfg, data) ==
    IF "radon" \notin svcs \/ ~IsNumber(data, "radonShortTermAvg") THEN chars
    ELSE [chars EXCEPT !.leakDetected =
             IF IsLeak(FieldValue(data, "radonShortTermAvg"), cfg)
             THEN "LEAK_DETECTED" ELSE "LEAK_NOT_DETECTED"]

\* updateCo2Characteristics(): isHigh
IsHigh(co2Level) == co2Level > HIGH_CO2_THRESHOLD

\* updateCo2Characteristics(data.co2)
UpdateCo2Characteristics(chars, svcs, data) ==
    IF "co2" \notin svcs \/ ~IsNumber(data, "co2") THEN chars
    ELSE [chars EXCEPT !.co2Level = FieldValue(data, "co2"),
                       !.co2Detected =
                          IF IsHigh(FieldValue(data, "co2"))
                          THEN "CO2_LEVELS_ABNORMAL" ELSE "CO2_LEVELS_NORMAL"]

\* mutant: the breakpoints belong to the worse tier
Quality_Exclusive(vocLevel) ==
    IF vocLevel < EXCELLENT_VOC_THRESHOLD THEN "EXCELLENT"
    ELSE IF vocLevel < GOOD_VOC_THRESHOLD THEN "GOOD"
    ELSE IF vocLevel < FAIR_VOC_THRESHOLD THEN "FAIR"
    ELSE IF vocLevel < INFERIOR_VOC_THRESHOLD THEN "INFERIOR"
    ELSE "POOR"

\* updateVocCharacteristics(): quality
Quality(vocLevel) ==
    IF vocLevel <= EXCELLENT_VOC_THRESHOLD THEN "EXCELLENT"
    ELSE IF vocLevel <= GOOD_VOC_THRESHOLD THEN "GOOD"
    ELSE IF vocLevel <= FAIR_VOC_THRESHOLD THEN "FAIR"
    ELSE IF vocLevel <= INFERIOR_VOC_THRESHOLD THEN "INFERIOR"
    ELSE "POOR"

\* updateVocCharacteristics(data.voc)
UpdateVocCharacteristics(chars, svcs, data) ==
    IF "voc" \notin svcs \/ ~IsNumber(data, "voc") THEN chars
    ELSE [chars EXCEPT !.vocDensity = FieldValue(data, "voc"),
                       !.airQuality = Quality(FieldValue(data, "voc"))]

\* updateBatteryCharacteristics(): isLow
IsLow(battery) ==
    IF battery < LOW_BATTERY_THRESHOLD THEN "BATTERY_LEVEL_LOW" ELSE "BATTERY_LEVEL_NORMAL"

\* mutant: a sample without a battery field counts as an empty battery
UpdateBatteryCharacteristics_AbsentIsZero(chars, svcs, carriers, data) ==
    LET level == IF IsNumber(data, "battery") THEN FieldValue(data, "battery") ELSE 0 IN
    [chars EXCEPT !.batteryLevel = IF "battery" \in svcs THEN level ELSE @,
                  !.lowBattery =
                     [k \in SensorKeys |->
                         IF k \in svcs /\ (k = "battery" \/ k \in carriers)
                         THEN IsLow(level) ELSE @[k]]]

\* updateBatteryCharacteristics(data.battery): the battery service, then every
\* other service for which testCharacteristic(StatusLowBattery) holds
UpdateBatteryCharacteristics(chars, svcs, carriers, data) ==
    IF ~IsNumber(data, "battery") THEN chars
    ELSE [chars EXCEPT !.batteryLevel =
                          IF "battery" \in svcs THEN FieldValue(data, "battery") ELSE @,
                       !.lowBattery =
             [k \in SensorKeys |->
                 IF k \in svcs /\ (k = "battery" \/ k \in carriers)
                 THEN IsLow(FieldValue(data, "battery")) ELSE @[k]]]

\* onStateUpdate() with this.state = st (temperature and humidity, which the
\* devices followed do not report, are left out)
OnStateUpdate(chars, svcs, carriers, cfg, st) ==
    IF st.isFaulted THEN ApplyFaultState(chars, svcs, "GENERAL_FAULT")
    ELSE LET cleared == ApplyFaultState(chars, svcs, "NO_FAULT") IN
         IF st.latestSample.isNull THEN cleared
         ELSE LET data == st.latestSample.data
                  radon == UpdateRadonCharacteristics(cleared, svcs, cfg, data)
                  co2 == UpdateCo2Characteristics(radon, svcs, data)
                  voc == UpdateVocCharacteristics(co2, svcs, data)
              IN UpdateBatteryCharacteristics(voc, svcs, carriers, data)

AccessoryInit ==
    /\ built = FALSE
    /\ services = {}
    /\ lowBatteryServices = {}
    /\ characteristics = NoCharacteristics
    /\ notified = InitialState

\* new AirthingsHubAccessory(platform, accessory) for an accessory of device;
\* optional says whether the services other than Battery carry the optional
\* StatusLowBattery characteristic
Construct(device, optional) ==
    /\ phase = "constructed"
    /\ ~built
    /\ ~ShouldIgnoreDevice(config, device)
    /\ built' = TRUE
    /\ services' = ActiveSensors(config, device)
    /\ lowBatteryServices' = IF optional THEN ActiveSensors(config, device)
                             ELSE ActiveSensors(config, device) \cap {"battery"}
    /\ characteristics' = ConfigureServices(ActiveSensors(config, device))
    /\ notified' = InitialState
    /\ UNCHANGED <<pollerVars, apiVars, platformVars, fleetVars, variantVars>>

\* the poller's onUpdate(): onStateUpdate() reads the DeviceState st
Notify(st) ==
    /\ built
    /\ ~st.latestSample.isNull \/ st.isFaulted
    /\ characteristics' = OnStateUpdate(characteristics, services, lowBatteryServices,
                                        config, st)
    /\ notified' = st
    /\ UNCHANGED <<built, services, lowBatteryServices>>
    /\ UNCHANGED <<pollerVars, apiVars, platformVars, fleetVars, variantVars>>

AccessoryNext ==
    \/ \E cfg \in Configs : NewPlatform(cfg)
    \/ \E device \in Devices, optional \in BOOLEAN : Construct(device, optional)
    \/ \E st \in DeviceStates : Notify(st)

\* =================================================================== fleet
\* Two AirthingsHubAccessory wrappers of one platform: each constructor
\* (src/src/accessory.ts) makes its own DeviceState and its own DevicePoller;
\* the pollers run the code of src/src/poller.ts on their own fields.

\* the devices that have a wrapper
Fleet == {WavePlus.id, WaveMini.id}

\* one result of each kind getLatestSamples() can deliver
FleetResults ==
    {[resolved |-> TRUE, body |-> [present |-> TRUE, hasData |-> TRUE,
                                   data |-> {<<"radonShortTermAvg", 200>>}], error |-> NoError],
     [resolved |-> TRUE, body |-> [present |-> TRUE, hasData |-> TRUE, data |-> {}],
      error |-> NoError]}
    \cup {[resolved |-> FALSE, body |-> NoBody, error |-> e] :
             e \in {AbortError, RateLimitError, NetworkError}}

\* mutant: one DeviceState object shared by every wrapper
StateOf_Shared(self) == WavePlus.id

\* private readonly state: DeviceState = createInitialState(), handed to the
\* wrapper's own poller: the DeviceState the poller of device self writes
StateOf(self) == self

\* a DevicePoller as constructed
NewPoller == [isPolling |-> FALSE, pollingInterval |-> NoTimer, consecutiveFailures |-> 0,
              timers |-> {}, inFlight |-> 0]

\* a handle no pending timer and no field of poller p holds
FreshTimerOf(p) == CHOOSE i \in 1..(Cardinality(p.timers) + 2) :
                      /\ i # p.pollingInterval
                      /\ \A t \in p.timers : t.id # i

FleetInit ==
    /\ pollers = [d \in Fleet |-> NewPoller]
    /\ states = [d \in Fleet |-> InitialState]
    /\ acted = [self |-> "none", op |-> "new"]

\* start() of the poller of device self
FleetStart(self) ==
    /\ LET p == pollers[self] IN
       IF StartIsNoop(p.isPolling)
       THEN UNCHANGED pollers
       ELSE \E k \in 0..(RandomSteps - 1) :
              pollers' = [pollers EXCEPT ![self] =
                            [p EXCEPT !.isPolling = TRUE,
                                      !.timers = @ \cup {[id |-> FreshTimerOf(p), kind |-> "jitter",
                                                          delay |-> Jitter(k)]},
                                      !.pollingInterval = FreshTimerOf(p)]]
    /\ acted' = [self |-> self, op |-> "start"]
    /\ UNCHANGED states
    /\ UNCHANGED <<pollerVars, apiVars, platformVars, accessoryVars, variantVars>>

\* stop() of the poller of device self
FleetStop(self) ==
    /\ pollers' = [pollers EXCEPT ![self] =
                     [@ EXCEPT !.isPolling = FALSE,
                               !.timers = ClearTimeout(@, pollers[self].pollingInterval),
                               !.pollingInterval = NoTimer]]
    /\ acted' = [self |-> self, op |-> "stop"]
    /\ UNCHANGED states
    /\ UNCHANGED <<pollerVars, apiVars, platformVars, accessoryVars, variantVars>>

\* a pending timer of the poller of device self expires
FleetTimerFire(self, t) ==
    /\ t \in pollers[self].timers
    /\ LET p == pollers[self] IN
       IF t.kind = "jitter" /\ JitterCallbackBails(p.isPolling)
       THEN pollers' = [pollers EXCEPT ![self] = [p EXCEPT !.timers = @ \ {t}]]
       ELSE /\ p.inFlight < MaxFleetInFlight
            /\ pollers' = [pollers EXCEPT ![self] =
                             [p EXCEPT !.timers = @ \ {t}, !.inFlight = @ + 1]]
    /\ acted' = [self |-> self, op |-> "timer"]
    /\ UNCHANGED states
    /\ UNCHANGED <<pollerVars, apiVars, platformVars, accessoryVars, variantVars>>

\* getLatestSamples() of the poller of device self settles with r
FleetPollComplete(self, r) ==
    /\ pollers[self].inFlight > 0
    /\ LET p == pollers[self]
           own == states[StateOf(self)]
           st == [latestSample |-> own.latestSample, isFaulted |-> own.isFaulted,
                  consecutiveFailures |-> p.consecutiveFailures, onUpdateCalls |-> 0]
           out == PollOutcome(st, r)
           sched == ScheduleNext(p.isPolling, p.timers, p.pollingInterval, FreshTimerOf(p))
       IN /\ out.consecutiveFailures <= FAILURE_THRESHOLD
          /\ states' = [states EXCEPT ![StateOf(self)] =
                           [latestSample |-> out.latestSample, isFaulted |-> out.isFaulted]]
          /\ pollers' = [pollers EXCEPT ![self] =
                            [p EXCEPT !.consecutiveFailures = out.consecutiveFailures,
                                      !.timers = sched[1],
                                      !.pollingInterval = sched[2],
                                      !.inFlight = @ - 1]]
    /\ acted' = [self |-> self, op |-> "poll"]
    /\ UNCHANGED <<pollerVars, apiVars, platformVars, accessoryVars, variantVars>>

FleetNext ==
    \/ \E self \in Fleet : FleetStart(self)
    \/ \E self \in Fleet : FleetStop(self)
    \/ \E self \in Fleet : \E t \in pollers[self].timers : FleetTimerFire(self, t)
    \/ \E self \in Fleet, r \in FleetResults : FleetPollComplete(self, r)

\* a new poller and a new client; no platform and no accessory wrapper yet
Init == PollerInit /\ ApiInit /\ PlatformInit /\ AccessoryInit /\ FleetInit /\ EmitterInit
        /\ TimeoutInit

ApiSpec == Init /\ [][ApiNext]_vars

PollerSpec == Init /\ [][PollerNext]_vars

PlatformSpec == Init /\ [][PlatformNext]_vars

AccessorySpec == Init /\ [][AccessoryNext]_vars

FleetSpec == Init /\ [][FleetNext]_vars

EmitterSpec == Init /\ [][EmitterNext]_vars

TimeoutSpec == Init /\ [][TimeoutNext]_vars

GraceSpec == Init /\ [][GraceNext]_vars

\* ===================================================== API client claims

\* caller c got, or is waiting for, its token from a credential exchange
\* (its getToken() found no valid token in the cache)
Awaited(c) == callers[c].waitOn # NoExchange

\* a step in which caller c calls getToken()
GetTokenCallStep(c) ==
    callers[c].pc = "idle" /\ callers'[c].pc # "idle" /\ callers'[c].op = "getToken"

\* C1: getToken() calls issued while no valid token is cached and before the
\* same exchange completion (equal batch) all wait on one and the same
\* credential exchange, and those that have returned hold the same token.
C1_SingleFlight ==
    \A c \in Callers, d \in Callers :
        (Awaited(c) /\ Awaited(d) /\ callers[c].batch = callers[d].batch) =>
            /\ callers[c].waitOn = callers[d].waitOn
            /\ (callers[c].pc = "done" /\ callers[d].pc = "done") =>
                  callers[c].token = callers[d].token

\* two concurrent getToken() calls have returned after a single exchange
C1_Witness ==
    /\ exchanges = 1
    /\ \A c \in Callers :
          /\ callers[c].op = "getToken" /\ callers[c].pc = "done"
          /\ callers[c].waitOn = 1 /\ callers[c].token = 1

\* C2: a getToken() call made while now is before the cached expiry returns
\* the cached token and sends nothing; one made at or after the expiry of a
\* cached token, with no exchange in flight, sends exactly one exchange, and
\* returns the token that exchange caches.
C2_TokenCaching ==
    /\ [][\A c \in Callers : GetTokenCallStep(c) =>
            /\ now < tokenExpirationTime =>
                 /\ accessToken # NoToken
                 /\ callers'[c].pc = "done" /\ callers'[c].token = accessToken
                 /\ exchanges' = exchanges /\ authInFlight' = authInFlight
            /\ (accessToken # NoToken /\ now >= tokenExpirationTime /\ authInFlight = {}) =>
                 /\ exchanges' = exchanges + 1
                 /\ authInFlight' = {exchanges'}
                 /\ callers'[c].pc = "awaitToken" /\ callers'[c].waitOn = exchanges']_vars
    /\ [][\A c \in Callers :
            (callers[c].op = "getToken" /\ callers[c].pc = "awaitToken"
               /\ callers'[c].pc = "done") =>
                 /\ callers'[c].token = accessToken'
                 /\ callers'[c].token = callers[c].waitOn
                 /\ accessToken' # accessToken]_vars

\* one call was served from the cache; after the expiry another call got the
\* token of a second exchange
C2_Witness ==
    \E c \in Callers, d \in Callers :
        /\ callers[c].op = "getToken" /\ callers[c].pc = "done"
        /\ callers[c].waitOn = NoExchange /\ callers[c].token = 1
        /\ callers[d].op = "getToken" /\ callers[d].pc = "done"
        /\ callers[d].waitOn = 2 /\ callers[d].token = 2
        /\ exchanges = 2 /\ now > 0

\* the statuses request() of caller c has received: first, second
Got(c, first, second) ==
    /\ Len(callers[c].responses) = 2
    /\ callers[c].responses[1] = [how |-> "response", status |-> first]
    /\ callers[c].responses[2] = [how |-> "response", status |-> second]

\* C3: a request never makes more than 2 API calls; answered 401 then 200 it
\* succeeds after exactly 2 API calls and, with no other call in flight,
\* exactly one credential exchange after the 401; answered 401 twice it fails
\* after exactly 2 API calls.
C3_RetryOn401 ==
    \A c \in Callers : callers[c].op = "request" =>
        /\ callers[c].apiCalls <= 2
        /\ Got(c, HTTP_STATUS_UNAUTHORIZED, HTTP_STATUS_OK) =>
              /\ callers[c].pc = "done"
              /\ callers[c].apiCalls = 2
              /\ callers[c].solo => callers[c].exchAfter401 = 1
        /\ Got(c, HTTP_STATUS_UNAUTHORIZED, HTTP_STATUS_UNAUTHORIZED) =>
              /\ callers[c].pc = "failed"
              /\ callers[c].apiCalls = 2
              /\ callers[c].error = RequestError(HTTP_STATUS_UNAUTHORIZED)

\* a request that ran alone was answered 401, then 200
C3_Witness ==
    \E c \in Callers :
        /\ callers[c].op = "request" /\ callers[c].solo
        /\ Got(c, HTTP_STATUS_UNAUTHORIZED, HTTP_STATUS_OK)
        /\ callers[c].pc = "done" /\ callers[c].exchAfter401 = 1

\* a step in which the API call of caller c is answered with a non-2xx status
\* that is not a first 401
RefusedStep(c) ==
    /\ callers[c].pc = "awaitApi"
    /\ Len(callers'[c].responses) = Len(callers[c].responses) + 1
    /\ LET a == callers'[c].responses[Len(callers'[c].responses)] IN
          /\ a.how = "response" /\ a.status # 200
          /\ a.status # 401 \/ callers[c].isRetry

\* C25: a request answered 403, 429 or any other non-2xx status, or a retry
\* answered with any non-2xx status, fails at once: no further API call is
\* made, the cached token is not cleared and no credential exchange is started.
C25_NoRetryExceptFirst401 ==
    [][\A c \in Callers : RefusedStep(c) =>
          /\ callers'[c].pc = "failed"
          /\ callers'[c].error =
                RequestError(callers'[c].responses[Len(callers'[c].responses)].status)
          /\ callers'[c].apiCalls = callers[c].apiCalls
          /\ callers'[c].apiCalls = Len(callers'[c].responses)
          /\ accessToken' = accessToken /\ tokenExpirationTime' = tokenExpirationTime
          /\ exchanges' = exchanges /\ authInFlight' = authInFlight
          /\ tokenRefreshPromise' = tokenRefreshPromise]_vars

\* a retry was answered 403: the request failed after its second API call and
\* the token fetched for the retry is still cached
C25_Witness ==
    \E c \in Callers :
        /\ Got(c, HTTP_STATUS_UNAUTHORIZED, HTTP_STATUS_FORBIDDEN)
        /\ callers[c].pc = "failed" /\ callers[c].apiCalls = 2
        /\ callers[c].error = RequestError(HTTP_STATUS_FORBIDDEN)
        /\ accessToken # NoToken /\ authInFlight = {}

\* a step in which the credential exchange e fails
ExchangeFailStep(e) == e \in authInFlight /\ e \notin authInFlight' /\ accessToken' # e

\* C26: when the credential exchange fails, every getToken() waiting on it
\* fails, the cached token is cleared and the in-flight marker is cleared, so
\* the next getToken() call starts a new exchange.
C26_FailedRefreshRecovers ==
    /\ [][\A e \in authInFlight : ExchangeFailStep(e) =>
            /\ \A c \in Callers :
                  (callers[c].pc = "awaitToken" /\ callers[c].waitOn = e) =>
                      /\ callers'[c].pc = "failed"
                      /\ callers'[c].error \in ExchangeFailures
                      /\ callers'[c].token = NoToken
            /\ accessToken' = NoToken
            /\ tokenRefreshPromise' = NoExchange
            /\ GetTokenDecision(accessToken', now', tokenExpirationTime',
                                tokenRefreshPromise') = "start"]_vars
    /\ [][\A c \in Callers :
            (GetTokenCallStep(c) /\ accessToken = NoToken /\ authInFlight = {}) =>
                /\ exchanges' = exchanges + 1
                /\ authInFlight' = {exchanges'}
                /\ callers'[c].pc = "awaitToken" /\ callers'[c].waitOn = exchanges']_vars

\* the first exchange failed for the caller that waited on it, and the next
\* getToken() call is waiting on a second exchange
C26_Witness ==
    \E c \in Callers, d \in Callers :
        /\ callers[c].pc = "failed" /\ callers[c].waitOn = 1
        /\ callers[c].error = AuthFailedError
        /\ callers[d].op = "getToken" /\ callers[d].pc = "awaitToken" /\ callers[d].waitOn = 2
        /\ authInFlight = {2} /\ accessToken = NoToken

\* C29: at most one credential exchange is in flight per client.
C29_OneExchangeInFlight == Cardinality(authInFlight) <= 1

\* after a 401 cleared the token, the retry started an exchange and a second
\* caller, finding no token, joined it
C29_Witness ==
    \E c \in Callers, d \in Callers :
        /\ c # d /\ exchanges = 2 /\ authInFlight = {2}
        /\ callers[c].op = "request" /\ callers[c].isRetry
        /\ callers[c].pc = "awaitToken" /\ callers[c].waitOn = 2
        /\ callers[d].pc = "awaitToken" /\ callers[d].waitOn = 2

\* a step in which a first API call of caller c, sent with a token that has
\* been replaced in the cache since, is answered 401
Late401Step(c) ==
    /\ callers[c].pc = "awaitApi" /\ ~callers[c].isRetry
    /\ Len(callers'[c].responses) = Len(callers[c].responses) + 1
    /\ callers'[c].responses[Len(callers'[c].responses)]
          = [how |-> "response", status |-> HTTP_STATUS_UNAUTHORIZED]
    /\ accessToken # NoToken /\ accessToken # callers[c].token

\* C38: a 401 for a request sent with an older token never discards a newer
\* token that has been cached since, and starts no further credential
\* exchange: the token is re-obtained once for all the requests sent with the
\* rejected token.
C38_Late401KeepsNewerToken ==
    [][\A c \in Callers : Late401Step(c) =>
          /\ accessToken' = accessToken
          /\ tokenExpirationTime' = tokenExpirationTime
          /\ exchanges' = exchanges]_vars

\* a step in which caller c calls getToken(), directly or through request()
AnyGetTokenStep(c) == callers[c].pc = "idle" /\ callers'[c].pc # "idle"

\* C32: a token cached at time t by an exchange that answered expires_in = s
\* has the expiry max(t, t + 1000 * s - 60000); a cached token with s <= 60 is
\* never served from the cache: every later getToken() gets its token from an
\* exchange newer than the one that cached it.
C32_TokenExpiry ==
    /\ [](accessToken # NoToken =>
            tokenExpirationTime =
               IF oauth.at + 1000 * oauth.expiresIn - 60000 >= oauth.at
               THEN oauth.at + 1000 * oauth.expiresIn - 60000 ELSE oauth.at)
    /\ [][\A c \in Callers :
            (AnyGetTokenStep(c) /\ accessToken # NoToken /\ oauth.expiresIn <= 60) =>
                /\ callers'[c].pc = "awaitToken"
                /\ callers'[c].waitOn > accessToken
                /\ callers'[c].waitOn \in authInFlight']_vars

\* a token that came with expires_in = 60 is in the cache, expired as it was
\* cached, and a getToken() call made at that instant waits on a new exchange
C32_Witness ==
    /\ accessToken = 1 /\ oauth = [expiresIn |-> 60, at |-> now]
    /\ tokenExpirationTime = now
    /\ \E c \in Callers : callers[c].pc = "awaitToken" /\ callers[c].waitOn = 2

\* ========================================================= poller claims

\* a step of PollComplete: the only action that takes a fetch out of flight
PollStep == inFlight' = inFlight - 1
\* a step of start(): the only action that lengthens the streak
StartStep == startStreak' = startStreak + 1
\* a step in which a timer expires
TimerStep == lastOp' = "timer" /\ timers' # timers

\* results, classified as the specification classifies them
EmptyOrMalformed == {r \in FetchResults :
                       r.resolved /\ (~r.body.present \/ ~r.body.hasData \/ r.body.data = {})}
NonEmptySamples == {r \in FetchResults : r.resolved} \ EmptyOrMalformed
Timeouts == {r \in FetchResults : ~r.resolved /\ r.error = AbortError}
RateLimited == {r \in FetchResults : ~r.resolved /\ r.error = RateLimitError}
SoftFailures == EmptyOrMalformed \cup Timeouts
HardFailures == {r \in FetchResults : ~r.resolved} \ (Timeouts \cup RateLimited)

\* C4: a soft failure (empty/malformed sample or timeout) adds one to
\* consecutiveFailures; the 1st and 2nd of a streak leave isFaulted alone and
\* fire no notification, the 3rd sets isFaulted and fires exactly one; a
\* successful poll resets the counter to 0.
C4_SoftFailureEscalation ==
    [][PollStep =>
         /\ lastResult' \in SoftFailures =>
              /\ consecutiveFailures' = consecutiveFailures + 1
              /\ consecutiveFailures < 2 => (isFaulted' = isFaulted /\ onUpdateCalls' = 0)
              /\ consecutiveFailures = 2 => (isFaulted' /\ onUpdateCalls' = 1)
         /\ lastResult' \in NonEmptySamples => consecutiveFailures' = 0]_vars

\* the third soft failure of a streak has just been handled
C4_Witness ==
    /\ lastOp = "poll" /\ lastResult \in SoftFailures
    /\ consecutiveFailures = 3 /\ isFaulted /\ onUpdateCalls = 1

\* C5: a cycle failing with an error that is neither a timeout nor a rate
\* limit sets isFaulted, resets consecutiveFailures to 0 and fires a
\* notification in that same cycle, whatever the counter was.
C5_HardFailure ==
    [][(PollStep /\ lastResult' \in HardFailures) =>
         (isFaulted' /\ consecutiveFailures' = 0 /\ onUpdateCalls' = 1)]_vars

\* a hard failure has just been handled
C5_Witness ==
    /\ lastOp = "poll" /\ lastResult \in HardFailures
    /\ isFaulted /\ consecutiveFailures = 0 /\ onUpdateCalls = 1

\* C6: a cycle answered with HTTP 429 never sets isFaulted, never changes
\* consecutiveFailures and fires no notification.
C6_RateLimitImmunity ==
    [][(PollStep /\ lastResult' \in RateLimited) =>
         /\ isFaulted' = isFaulted
         /\ consecutiveFailures' = consecutiveFailures
         /\ onUpdateCalls' = 0]_vars

\* C7: a cycle that returns a non-empty sample sets consecutiveFailures to 0,
\* replaces latestSample with the returned sample, clears isFaulted and fires
\* exactly one notification.
C7_SuccessfulPoll ==
    [][(PollStep /\ lastResult' \in NonEmptySamples) =>
         /\ consecutiveFailures' = 0
         /\ latestSample' = [isNull |-> FALSE, data |-> lastResult'.body.data]
         /\ isFaulted' = FALSE
         /\ onUpdateCalls' = 1]_vars

\* a non-empty sample has just been stored and notified
C7_Witness ==
    /\ lastOp = "poll" /\ lastResult \in NonEmptySamples
    /\ latestSample.data = {<<"radonShortTermAvg", 200>>, <<"battery", 50>>}
    /\ ~isFaulted /\ onUpdateCalls = 1

\* C8: once stop() has been called and start() has not been called since, no
\* timer is pending, no step starts a fetch cycle, and the completion of an
\* in-flight fetch arms no timer.
C8_StopPreventsRescheduling ==
    /\ [](stopped => timers = {})
    /\ [][(stopped /\ stopped') => (fetchStarts' = 0 /\ timers' = {})]_vars

\* a fetch that was in flight when stop() was called has completed
C8_Witness == stopped /\ lastOp = "poll" /\ timers = {} /\ inFlight = 0

\* C9: start() on a running poller changes nothing; after consecutive start()
\* calls on a poller that was not running exactly one timer is pending; a
\* timer expiry starts exactly one fetch.
C9_StartIdempotent ==
    /\ [][(StartStep /\ isPolling) =>
            UNCHANGED <<isPolling, pollingInterval, timers, inFlight, consecutiveFailures,
                        latestSample, isFaulted>>]_vars
    /\ []((startStreak >= 1 /\ streakFromIdle) => Cardinality(timers) = 1)
    /\ [][TimerStep => (fetchStarts' = 1 /\ inFlight' = inFlight + 1)]_vars

\* start() has been called twice in a row on a poller that was not running
C9_Witness == startStreak = 2 /\ streakFromIdle /\ Cardinality(timers) = 1

\* C10: at most one fetch cycle is in flight at any time.
C10_AtMostOneFetchInFlight == inFlight <= 1

\* a jitter timer that start() armed is still pending, or has elapsed and
\* started the first fetch, or was cancelled by stop()
JitterRunsItsCourse ==
    \A t \in timers : (t.kind = "jitter" /\ t \notin timers') =>
        \/ lastOp' = "timer" /\ fetchStarts' = 1
        \/ lastOp' = "stop"

\* C11: start() on a poller that is not running arms one jitter timer with a
\* delay in [0, 5000) ms, and the first fetch starts when that timer elapses;
\* while the poller is not stopped, the completion of every fetch cycle,
\* whatever its outcome, arms a timer of exactly pollIntervalMs, so a running
\* poller always has a timer pending or a fetch in flight.
C11_Scheduling ==
    /\ [][(StartStep /\ ~isPolling) =>
            \E t \in timers' :
                /\ timers' = timers \cup {t} /\ t \notin timers
                /\ t.kind = "jitter" /\ t.delay >= 0 /\ t.delay < JITTER_RANGE_MS
                /\ pollingInterval' = t.id]_vars
    /\ [][JitterRunsItsCourse]_vars
    /\ [][(PollStep /\ isPolling) =>
            \E t \in timers' :
                /\ t \notin timers /\ pollingInterval' = t.id
                /\ t.kind = "interval" /\ t.delay = DEFAULT_POLL_INTERVAL_MS]_vars
    /\ [](isPolling => (timers # {} \/ inFlight > 0))

\* C19: isFaulted goes from true to false only in a successful poll with a
\* non-empty sample, and from false to true only on a hard error or on the
\* soft failure that brings consecutiveFailures to 3; the state starts as
\* latestSample = null, isFaulted = false.
C19_FaultTransitions ==
    /\ lastOp = "new" => (latestSample.isNull /\ ~isFaulted)
    /\ [][/\ (isFaulted /\ ~isFaulted') => (PollStep /\ lastResult' \in NonEmptySamples)
          /\ (~isFaulted /\ isFaulted') =>
                /\ PollStep
                /\ \/ lastResult' \in HardFailures
                   \/ lastResult' \in SoftFailures /\ consecutiveFailures' = FAILURE_THRESHOLD]_vars

\* C22: when stop() was called while a fetch was in flight, the completion of
\* that fetch leaves latestSample and isFaulted as they are and delivers no
\* notification.
C22_StopDiscardsResult ==
    [][(PollStep /\ stopped) =>
         (latestSample' = latestSample /\ isFaulted' = isFaulted /\ onUpdateCalls' = 0)]_vars

\* C23: once stop() has been called, no later step (a timer expiry, a fetch
\* completion, a further start() call) arms a timer or starts a fetch cycle.
C23_StopIsTerminal ==
    [][stopped => (timers' \subseteq timers /\ fetchStarts' = 0)]_vars

\* C28: a poller has at most one timer outstanding.
C28_OneTimer == Cardinality(timers) <= 1

\* a fetch completed while a second one was in flight and the poller was
\* running: the one timer pending is the interval timer it armed
C28_Witness ==
    /\ lastOp = "poll" /\ isPolling /\ inFlight = 1
    /\ \E t \in timers : timers = {t} /\ t.kind = "interval" /\ t.id = pollingInterval

\* C30: latestSample, null at first, is modified only by a fetch cycle that
\* returned a non-empty sample; a cycle ending in an empty or malformed
\* response, a timeout, a rate limit or a hard error leaves it as it was.
C30_SampleFrame ==
    /\ lastOp = "new" => latestSample.isNull
    /\ [][/\ latestSample' # latestSample => (PollStep /\ lastResult' \in NonEmptySamples)
          /\ (PollStep /\ lastResult' \in SoftFailures \cup RateLimited \cup HardFailures)
                => latestSample' = latestSample]_vars

\* a stored sample has outlived a cycle that ended in a hard error
C30_Witness ==
    /\ lastOp = "poll" /\ lastResult \in HardFailures
    /\ latestSample = [isNull |-> FALSE, data |-> {<<"radonShortTermAvg", 50>>}]
    /\ isFaulted

\* C37: in every reachable state of the state-based poller,
\* consecutiveFailures >= 3 implies isFaulted.
C37_ThresholdImpliesFault == consecutiveFailures >= 3 => isFaulted

\* a fourth soft failure in a row has been counted on a faulted state
C37_Witness ==
    /\ lastOp = "poll" /\ lastResult \in SoftFailures
    /\ consecutiveFailures = 4 /\ isFaulted

\* ======================================================= platform claims

\* a discovery has just run and got a device list (possibly empty or omitted)
Reconciled == phase = "launched" /\ lastDiscovery.result.resolved
\* the upstream list the last discovery got
Upstream ==
    IF lastDiscovery.result.response.hasDevices
    THEN lastDiscovery.result.response.devices ELSE <<>>
\* the accessory collection the last discovery found
Before == lastDiscovery.before.accessories
\* G of the configuration, in ms
GraceMs == config.orphanGracePeriodDays * 86400000
\* the exclusion rules, as the specification orders them
Excluded(d) ==
    \/ d.deviceType = "HUB"
    \/ d.id \in config.ignoredDevices
    \/ config.includedDevices # {} /\ d.id \notin config.includedDevices
\* an accessory whose device is missing upstream, or excluded
Orphaned(a) ==
    \/ \A k \in DOMAIN Upstream : Upstream[k].id # a.device.id
    \/ Excluded(a.device)
\* the marker of accessory a once the last discovery has marked it
MarkedSince(a) ==
    IF a.orphanedSince.isNumber THEN a.orphanedSince.value ELSE lastDiscovery.at
\* the records of the collection with the identifier u
Records(accs, u) == {i \in DOMAIN accs : accs[i].UUID = u}
\* accessory a of Before was evicted by the last discovery
Evicted(a) == Records(accessories, a.UUID) = {}
\* accessory a of Before was kept, marked since and shown faulty
RetainedFlagged(a) ==
    \E j \in Records(accessories, a.UUID) :
        /\ accessories[j].orphanedSince = OrphanedAt(MarkedSince(a))
        /\ accessories[j].statusFault = "GENERAL_FAULT"
        /\ accessories[j].device = a.device

\* C12: a reconcile at time now evicts an orphaned accessory iff
\* now - orphanedSince > G, G = orphanGracePeriodDays * 86 400 000 ms; when
\* now - orphanedSince <= G (exactly G included) the accessory is retained and
\* fault-flagged; an accessory that is not orphaned is not evicted.
C12_OrphanGracePeriod ==
    Reconciled =>
        \A i \in DOMAIN Before :
            IF Orphaned(Before[i])
            THEN /\ Evicted(Before[i]) <=> (lastDiscovery.at - MarkedSince(Before[i]) > GraceMs)
                 /\ ~Evicted(Before[i]) => RetainedFlagged(Before[i])
            ELSE ~Evicted(Before[i])

\* with a grace period of one day, an accessory marked exactly one day
\* earlier was retained and fault-flagged
C12_Witness ==
    /\ Reconciled /\ GraceMs > 0
    /\ \E i \in DOMAIN Before :
          /\ Orphaned(Before[i]) /\ Before[i].orphanedSince.isNumber
          /\ lastDiscovery.at - Before[i].orphanedSince.value = GraceMs
          /\ RetainedFlagged(Before[i])

\* C13: a device is excluded if its type is HUB, or else if its id is in
\* ignoredDevices, or else if includedDevices is non-empty and lacks its id;
\* a device in both lists is excluded, a device absent from a non-empty
\* includedDevices is excluded even when not ignored; no accessory record is
\* created for an excluded device.
C13_ExclusionPrecedence ==
    /\ \A d \in Devices :
          /\ ShouldIgnoreDevice(config, d) <=> Excluded(d)
          /\ (d.id \in config.includedDevices /\ d.id \in config.ignoredDevices)
                => ShouldIgnoreDevice(config, d)
          /\ (config.includedDevices # {} /\ d.id \notin config.includedDevices)
                => ShouldIgnoreDevice(config, d)
          /\ (config.includedDevices = {} /\ d.deviceType # "HUB"
                /\ d.id \notin config.ignoredDevices) => ~ShouldIgnoreDevice(config, d)
    /\ Reconciled =>
          /\ \A k \in DOMAIN Upstream :
                Excluded(Upstream[k]) =>
                    /\ \A r \in DOMAIN lastDiscovery.registerCalls :
                          lastDiscovery.registerCalls[r] # UUID(Upstream[k].id)
                    /\ Records(accessories, UUID(Upstream[k].id))
                          \subseteq {j \in DOMAIN accessories :
                                       Records(Before, accessories[j].UUID) # {}}
          /\ \A j \in DOMAIN accessories :
                Records(Before, accessories[j].UUID) = {} => ~Excluded(accessories[j].device)

\* a device listed in both ignoredDevices and includedDevices came upstream
\* next to an included one: only the latter got a record
C13_Witness ==
    /\ Reconciled
    /\ \E k \in DOMAIN Upstream :
          /\ Upstream[k].id \in config.ignoredDevices \cap config.includedDevices
          /\ Records(accessories, UUID(Upstream[k].id)) = {}
    /\ Len(lastDiscovery.registerCalls) = 1

\* C14: after a reconcile with a non-empty upstream list, every non-excluded
\* upstream device d has an accessory record with the identifier derived from
\* d.id whose stored Device copy equals d and whose orphanedSince is unset; a
\* record that existed is updated in place and not registered again, otherwise
\* a new record is created and registered.
C14_CreateOrRestore ==
    (Reconciled /\ Len(Upstream) > 0) =>
        \A k \in DOMAIN Upstream :
            ~Excluded(Upstream[k]) =>
                LET u == UUID(Upstream[k].id)
                    registered == {r \in DOMAIN lastDiscovery.registerCalls :
                                     lastDiscovery.registerCalls[r] = u}
                IN /\ Records(accessories, u) # {}
                   /\ \A j \in Records(accessories, u) :
                         /\ accessories[j].device = Upstream[k]
                         /\ accessories[j].orphanedSince = NotOrphaned
                   /\ IF Records(Before, u) # {}
                      THEN /\ registered = {}
                           /\ Cardinality(Records(accessories, u)) = Cardinality(Records(Before, u))
                      ELSE /\ Cardinality(registered) = 1
                           /\ Cardinality(Records(accessories, u)) = 1

\* a cached, orphaned accessory with an old Device copy was recovered and a
\* second device got a new record
C14_Witness ==
    /\ Reconciled /\ Len(Upstream) > 0
    /\ \E i \in DOMAIN Before, j \in DOMAIN accessories :
          /\ Before[i].orphanedSince.isNumber
          /\ accessories[j].UUID = Before[i].UUID
          /\ accessories[j].device # Before[i].device
          /\ accessories[j].orphanedSince = NotOrphaned
    /\ Len(lastDiscovery.registerCalls) = 1

\* C15: the accessory collection holds at most one accessory record per
\* device identifier.
C15_OneRecordPerDevice ==
    \A i, j \in DOMAIN accessories :
        (accessories[i].device.id = accessories[j].device.id
           \/ accessories[i].UUID = accessories[j].UUID) => i = j

\* a device that had been marked orphaned came back in a list that repeats
\* its id
C15_Witness ==
    /\ Reconciled /\ reconciles >= 2
    /\ \E k, l \in DOMAIN Upstream :
          /\ k # l /\ Upstream[k].id = Upstream[l].id
          /\ Records(accessories, UUID(Upstream[k].id)) # {}
          /\ \E i \in Records(Before, UUID(Upstream[k].id)) : Before[i].orphanedSince.isNumber

\* C16: when the upstream list is empty or omitted, reconcile raises no error
\* and creates no accessory, and every cached accessory has orphanedSince set
\* to now if it was unset and is then either retained and fault-flagged or
\* evicted, according to the grace period.
C16_EmptyDeviceList ==
    (Reconciled /\ Len(Upstream) = 0) =>
        /\ lastDiscovery.outcome = "empty" /\ lastDiscovery.errorLog = ""
        /\ lastDiscovery.registerCalls = <<>>
        /\ \A j \in DOMAIN accessories : Records(Before, accessories[j].UUID) # {}
        /\ \A i \in DOMAIN Before :
              IF lastDiscovery.at - MarkedSince(Before[i]) > GraceMs
              THEN Evicted(Before[i])
              ELSE RetainedFlagged(Before[i])

\* the list was omitted and a cached accessory that was not orphaned got
\* marked at the time of the discovery and flagged
C16_Witness ==
    /\ Reconciled /\ ~lastDiscovery.result.response.hasDevices
    /\ \E i \in DOMAIN Before :
          /\ ~Before[i].orphanedSince.isNumber
          /\ \E j \in Records(accessories, Before[i].UUID) :
                /\ accessories[j].orphanedSince = OrphanedAt(lastDiscovery.at)
                /\ accessories[j].statusFault = "GENERAL_FAULT"

\* C17: when reconcile evicts an accessory, every poller that was started for
\* that accessory's device is stopped.
C17_NoLeakedPollers ==
    Reconciled =>
        \A r \in DOMAIN lastDiscovery.unregisterCalls :
            \A w \in DOMAIN wrappers :
                UUID(wrappers[w].device) = lastDiscovery.unregisterCalls[r]
                    => ~wrappers[w].isPolling

\* C27: after the platform's shutdown event every poller the platform has
\* started, in whichever discovery, is stopped.
C27_ShutdownStopsAll ==
    phase = "shutdown" => \A w \in DOMAIN wrappers : ~wrappers[w].isPolling

\* C31: after any sequence of discoveries at most one poller per device
\* identifier is running.
C31_OnePollerPerDevice ==
    \A v, w \in DOMAIN wrappers :
        (wrappers[v].device = wrappers[w].device
           /\ wrappers[v].isPolling /\ wrappers[w].isPolling) => v = w

\* accessory a of Before has its device in the upstream list, yet excluded
ExcludedUpstream(a) ==
    /\ \E k \in DOMAIN Upstream : Upstream[k].id = a.device.id
    /\ Excluded(a.device)

\* C35: a cached accessory whose device is still returned upstream but is
\* excluded by the filters is treated like one whose device is missing:
\* orphanedSince is set if unset, it is fault-flagged during the grace period
\* and evicted after it, and no poller is started for it.
C35_ExcludedIsOrphaned ==
    Reconciled =>
        \A i \in DOMAIN Before :
            ExcludedUpstream(Before[i]) =>
                /\ IF lastDiscovery.at - MarkedSince(Before[i]) > GraceMs
                   THEN Evicted(Before[i])
                   ELSE RetainedFlagged(Before[i])
                /\ \A w \in DOMAIN wrappers :
                      wrappers[w].device = Before[i].device.id
                          => w \in DOMAIN lastDiscovery.before.wrappers

\* a restored accessory of an ignored device that came upstream was marked at
\* the time of the discovery and fault-flagged
C35_Witness ==
    /\ Reconciled /\ GraceMs > 0
    /\ \E i \in DOMAIN Before :
          /\ ExcludedUpstream(Before[i]) /\ ~Before[i].orphanedSince.isNumber
          /\ Before[i].device.id \in config.ignoredDevices
          /\ \E j \in Records(accessories, Before[i].UUID) :
                /\ accessories[j].orphanedSince = OrphanedAt(lastDiscovery.at)
                /\ accessories[j].statusFault = "GENERAL_FAULT"

\* C39: for every orphanGracePeriodDays the config parser accepts, an
\* accessory is never evicted by the discovery that first sets its
\* orphanedSince: it is retained and fault-flagged.
C39_NoEvictionWhenMarked ==
    Reconciled =>
        \A i \in DOMAIN Before :
            (Orphaned(Before[i]) /\ ~Before[i].orphanedSince.isNumber) =>
                /\ ~Evicted(Before[i])
                /\ RetainedFlagged(Before[i])

\* C18: if fetching the device list fails, the error is logged and absorbed
\* and nothing changes: no record is created, marked orphaned, fault-flagged
\* or evicted, and no poller is started or stopped.
C18_DiscoveryFailure ==
    (phase = "launched" /\ ~lastDiscovery.result.resolved) =>
        /\ lastDiscovery.outcome = "failed"
        /\ lastDiscovery.errorLog = lastDiscovery.result.error.message
        /\ accessories = lastDiscovery.before.accessories
        /\ wrappers = lastDiscovery.before.wrappers
        /\ activeWrappers = lastDiscovery.before.activeWrappers
        /\ lastDiscovery.registerCalls = <<>>
        /\ lastDiscovery.updateCalls = <<>>
        /\ lastDiscovery.unregisterCalls = <<>>

\* the launch-triggered discovery failed with a thrown string while the
\* cache held an accessory
C18_Witness ==
    /\ reconciles = 1 /\ ~lastDiscovery.result.resolved
    /\ lastDiscovery.errorLog = "String Error"
    /\ Len(accessories) > 0

\* ====================================================== accessory claims

\* the last notification found no fault and a sample with a numeric radon value
RadonNotified ==
    /\ built /\ ~notified.isFaulted /\ ~notified.latestSample.isNull
    /\ \E p \in notified.latestSample.data : p[1] = "radonShortTermAvg"
\* that radon value
RadonValue == (CHOOSE p \in notified.latestSample.data : p[1] = "radonShortTermAvg")[2]

\* C20: on a notification with isFaulted = false and a sample carrying a
\* numeric radonShortTermAvg r, the leak state of an accessory that has one is
\* 'leak detected' if r > radonThreshold and 'no leak' otherwise (r equal to
\* the threshold included).
C20_LeakDerivation ==
    (RadonNotified /\ characteristics.leakDetected # "none") =>
        /\ characteristics.leakDetected = "LEAK_DETECTED" <=> RadonValue > config.radonThreshold
        /\ characteristics.leakDetected = "LEAK_NOT_DETECTED" <=> RadonValue <= config.radonThreshold

\* with the threshold at 150 a sample of exactly 150 was presented as no leak
C20_Witness ==
    /\ RadonNotified /\ config.radonThreshold = 150 /\ RadonValue = 150
    /\ characteristics.leakDetected = "LEAK_NOT_DETECTED"

\* the last notification found no fault and a sample
SampleNotified == built /\ ~notified.isFaulted /\ ~notified.latestSample.isNull
\* the sample of the last notification carries a number for field
Reading(field) == \E p \in notified.latestSample.data : p[1] = field
\* that number
ReadingValue(field) == (CHOOSE p \in notified.latestSample.data : p[1] = field)[2]

\* C21: for every numeric reading the air-quality tier is excellent when
\* voc <= 250, good when 250 < voc <= 500, fair when 500 < voc <= 1000,
\* inferior when 1000 < voc <= 2000 and poor otherwise, never unknown; CO2 is
\* abnormal iff co2 > 1000; battery is low iff battery < 20, and the
\* low-battery status is written to every active service that carries it.
C21_CategoricalMapping ==
    SampleNotified =>
        /\ (Reading("voc") /\ "voc" \in services) =>
              LET v == ReadingValue("voc") IN
              characteristics.airQuality =
                 CASE v <= 250 -> "EXCELLENT"
                   [] 250 < v /\ v <= 500 -> "GOOD"
                   [] 500 < v /\ v <= 1000 -> "FAIR"
                   [] 1000 < v /\ v <= 2000 -> "INFERIOR"
                   [] OTHER -> "POOR"
        /\ (Reading("co2") /\ "co2" \in services) =>
              (characteristics.co2Detected = "CO2_LEVELS_ABNORMAL" <=> ReadingValue("co2") > 1000)
              /\ characteristics.co2Detected \in {"CO2_LEVELS_ABNORMAL", "CO2_LEVELS_NORMAL"}
        /\ Reading("battery") =>
              \A k \in services :
                  (k = "battery" \/ k \in lowBatteryServices) =>
                      /\ characteristics.lowBattery[k] = "BATTERY_LEVEL_LOW"
                            <=> ReadingValue("battery") < 20
                      /\ characteristics.lowBattery[k]
                            \in {"BATTERY_LEVEL_LOW", "BATTERY_LEVEL_NORMAL"}

\* a reading of 19 % showed a low battery on the battery service and on the
\* three sensor services that carry the status
C21_Witness ==
    /\ SampleNotified /\ Reading("battery") /\ ReadingValue("battery") = 19
    /\ services = {"radon", "co2", "voc", "battery"} /\ lowBatteryServices = services
    /\ \A k \in services : characteristics.lowBattery[k] = "BATTERY_LEVEL_LOW"
    /\ characteristics.airQuality = "GOOD"

\* =========================================================== fleet claims

\* the last step was taken by the poller of device a
ActedBy(a) == acted'.self = a
\* what belongs to device b: its poller's fields and timers, its DeviceState
Owned(b) == <<pollers[b], states[b]>>

\* C24: for two devices A and B with their own pollers, no fetch outcome of
\* A's poller modifies B's Device State, B's failure counter or B's timer, and
\* whatever A's poller went through, a pending timer of B starts B's fetch
\* when it expires.
C24_DeviceIndependence ==
    /\ [][\A a \in Fleet, b \in Fleet :
            (a # b /\ ActedBy(a) /\ acted'.op = "poll") =>
                /\ states'[b] = states[b]
                /\ pollers'[b].consecutiveFailures = pollers[b].consecutiveFailures
                /\ pollers'[b].timers = pollers[b].timers
                /\ pollers'[b].pollingInterval = pollers[b].pollingInterval
                /\ Owned(b)' = Owned(b)]_vars
    /\ [](\A b \in Fleet : \A t \in pollers[b].timers :
            (pollers[b].isPolling /\ pollers[b].inFlight = 0) =>
                ENABLED (FleetTimerFire(b, t) /\ pollers'[b].inFlight = 1))

\* the poller of d1 has just had a hard failure while the poller of d2,
\* with one soft failure counted and a sample stored, has its timer pending
C24_Witness ==
    /\ acted = [self |-> "d1", op |-> "poll"]
    /\ states["d1"].isFaulted /\ states["d1"].latestSample.isNull
    /\ pollers["d2"].consecutiveFailures = 1 /\ pollers["d2"].timers # {}
    /\ ~states["d2"].isFaulted /\ ~states["d2"].latestSample.isNull

\* a step of onStateUpdate() that found no fault and a sample
SampleStep == built /\ built' /\ ~notified'.isFaulted /\ ~notified'.latestSample.isNull
\* the sample that step read carries a number for field
Has(field) == \E p \in notified'.latestSample.data : p[1] = field
\* that number
Value(field) == (CHOOSE p \in notified'.latestSample.data : p[1] = field)[2]

\* C34: on a notification with isFaulted = false, every characteristic
\* derived from a field that is missing in latestSample keeps its previous
\* value, while the characteristics of the fields that are present, on the
\* services the accessory has, are updated from them.
C34_AbsentIsNotZero ==
    [][SampleStep =>
         /\ IF Has("radonShortTermAvg") /\ "radon" \in services
            THEN characteristics'.leakDetected \in {"LEAK_DETECTED", "LEAK_NOT_DETECTED"}
            ELSE characteristics'.leakDetected = characteristics.leakDetected
         /\ IF Has("co2") /\ "co2" \in services
            THEN characteristics'.co2Level = Value("co2")
            ELSE /\ characteristics'.co2Level = characteristics.co2Level
                 /\ characteristics'.co2Detected = characteristics.co2Detected
         /\ IF Has("voc") /\ "voc" \in services
            THEN characteristics'.vocDensity = Value("voc")
            ELSE /\ characteristics'.vocDensity = characteristics.vocDensity
                 /\ characteristics'.airQuality = characteristics.airQuality
         /\ IF Has("battery")
            THEN "battery" \in services => characteristics'.batteryLevel = Value("battery")
            ELSE /\ characteristics'.batteryLevel = characteristics.batteryLevel
                 /\ characteristics'.lowBattery = characteristics.lowBattery]_vars

\* a sample with a radon value only has been presented: the leak state
\* follows it, the battery level and the abnormal CO2 level of earlier
\* samples stand
C34_Witness ==
    /\ built /\ ~notified.isFaulted
    /\ notified.latestSample = [isNull |-> FALSE, data |-> {<<"radonShortTermAvg", 50>>}]
    /\ characteristics.leakDetected = "LEAK_NOT_DETECTED"
    /\ characteristics.batteryLevel = 50 /\ characteristics.co2Level = 1001
    /\ characteristics.co2Detected = "CO2_LEVELS_ABNORMAL"
    /\ characteristics.lowBattery["battery"] = "BATTERY_LEVEL_NORMAL"

\* ============================================ event-emitter poller claims

\* the step handled a fetch that threw something other than an AbortError or
\* a message with 'status 429'
OrdinaryErrorStep ==
    /\ lastOp' = "poll"
    /\ ~lastResult'.resolved /\ ~IsTimeout(lastResult'.error)
    /\ ~IncludesStatus429(lastResult'.error.message)

\* C36: in the event-emitter poller an error that is neither a timeout nor a
\* 429 adds one to the consecutive failures; it emits no 'fault' while that
\* count is 1 or 2 and emits 'fault' when the count reaches 3.
C36_EmitterDefersFault ==
    [][OrdinaryErrorStep =>
         /\ consecutiveFailures' = consecutiveFailures + 1
         /\ "update" \notin emitted'.events
         /\ consecutiveFailures' \in {1, 2} => "fault" \notin emitted'.events
         /\ consecutiveFailures' = 3 => "fault" \in emitted'.events]_vars

\* the third failure in a row, a thrown string, has just emitted 'fault' to
\* the attached listeners
C36_Witness ==
    /\ lastOp = "poll" /\ lastResult.error = StringThrow
    /\ consecutiveFailures = 3 /\ emitted = [listening |-> TRUE, events |-> {"fault"}]

\* ================================================== timed HTTP call claims

\* the call has been sent and its caller still awaits it
HttpPending == http.phase \in {"fetching", "reading"}

\* a call is never awaiting response headers more than 10 s after it was sent
FetchBounded == http.phase = "fetching" => now - http.sentAt <= FETCH_TIMEOUT_MS

\* a call aborted was sent 10 s before
AbortIsTimely == [][HttpPending /\ http'.outcome = "abort" =>
                      now = http.sentAt + FETCH_TIMEOUT_MS]_vars

\* C33: no HTTP call, API request or credential exchange, stays pending
\* more than 10 s after it was sent.
C33_NoCallPendingBeyondTimeout == HttpPending => now - http.sentAt <= FETCH_TIMEOUT_MS

\* ================================================ orphan presentation claims

\* accessory i before the step and accessory j after it are the same
\* accessory, marked orphaned at both ends
StaysOrphaned(i, j) ==
    /\ accessories[i].UUID = accessories'[j].UUID
    /\ accessories[i].orphanedSince.isNumber
    /\ accessories'[j].orphanedSince.isNumber

\* C40: an accessory that is marked orphaned and shows GENERAL_FAULT keeps
\* showing it for as long as it stays marked: no notification of a poller
\* still running for its device sets StatusFault back to NO_FAULT.
C40_OrphanStaysFaulted ==
    [][\A i \in DOMAIN accessories, j \in DOMAIN accessories' :
          (StaysOrphaned(i, j) /\ accessories[i].statusFault = "GENERAL_FAULT")
             => accessories'[j].statusFault = "GENERAL_FAULT"]_vars

====
